---- MODULE Spec2Model ----
(***************************************************************************)
(* PyLav: node pool, load penalty and per-guild player registry.           *)
(*                                                                         *)
(* Numbers.  Penalty.__init__ works on floats.  The model keeps every      *)
(* penalty as an exact integer multiple of 1/Scale: system_load is given   *)
(* in hundredths, so that 1.05 ** (100 * system_load) has an integer       *)
(* exponent, and frame counters are -1 or multiples of 6, so that          *)
(* 1.03 ** (500 * (frames / 3000)) has one too.  On that grid the sums and *)
(* products of the source are computed without rounding.                   *)
(***************************************************************************)
EXTENDS Integers, Sequences, FiniteSets, TLC

\* ------------------------------------------------------------------ bounds
MaxExp == 2          \* largest exponent of 1.05 / 1.03 the inputs produce
MaxPlaying == 2      \* playingPlayers of a stats report, penalty specification
MaxNodes == 3        \* nodes registered, node specification
MaxPoolNodes == 2    \* nodes registered, player specification
MaxGuilds == 2       \* guilds
MaxChannels == 2     \* voice channels of a guild
MaxTasks == 2        \* coroutines calling the PlayerManager at a time
MaxPlayers == 2      \* Player objects constructed in a run
MaxRetries == 4      \* reconnect attempts followed on a session without a cap
MaxSessNodes == 2    \* nodes registered, session specification
MaxFacadeNodes == 2  \* nodes registered, facade specification
MaxFallbacks == 2    \* get_tracks calls that find no search-only node
MaxHooks == 2        \* event hooks (handlers) of the application
MaxFailNodes == 2    \* nodes registered, failover specification
MaxRemNodes == 2     \* nodes registered, removal specification
MaxLen == 3          \* tokens of a query string
MaxNow == 32         \* days the clock of the query cache runs
MaxStream == 3       \* "stats" messages arrived on the websocket, stream specification
MaxFrames == 1       \* payloads written to the websockets, session specification

\* node.py:331, `return 9e30`.  TLC's integers are 32 bit wide, so the
\* sentinel is the largest of them; every total the model computes is below it.
Sentinel == 2147483647

None == 0            \* Python's None for a node or a player reference

\* client.py:158 and node.py:171, `reconnect_attempts: int = 3`
DefaultReconnectAttempts == 3
\* client.py:184, "Set to `-1` for infinite"
Unlimited == -1
\* client.py:156, `resume_timeout: int = 60`
DefaultResumeTimeout == 60

VARIABLES
    pdata,     \* penalty specification: the "stats" payload last received
    pstats,    \* penalty specification: {} or {the Stats object built from pdata}
    inbox,     \* stream specification: the "stats" messages arrived on a websocket, in order
    handled,   \* stream specification: how many of them the listener has processed
    notified,  \* the nodes whose loss the PlayerManager has been told of
    removed,   \* the nodes taken out of the NodeManager
    query,     \* query specification: the Query object from_query returned last
    table,     \* cache specification: the rows of the query table
    now,       \* cache specification: the clock, in days
    nodes,     \* NodeManager: registered node ids, in registration order
    region,    \* Node._region
    connected, \* Node._ws.connected
    stats,     \* Node._stats: {} (None) or {Stats object}
    players,   \* PlayerManager.players: guild id -> Player (None: no entry)
    pobj,      \* the Player objects constructed so far, by identity
    task,      \* the coroutines in flight: position and live locals
    result,    \* what the step just taken returned or raised to its caller
    events,    \* the events handed to Client._dispatch_event
    sent,      \* the payloads written to the nodes' websockets
    popped,    \* the Players taken out of PlayerManager.players
    hostport,  \* <<Node._host, Node._port>>
    resume_key,          \* Node._resume_key is set
    resume_timeout,      \* Node._resume_timeout, in seconds
    search_only,         \* Node._search_only
    reconnect_attempts,  \* Node._reconnect_attempts
    session,   \* the state of the node's WebSocket session
    attempts,  \* the session's reconnect-attempt counter
    failures,  \* the node-failure (NodeDisconnected) events emitted for the node
    hooks,     \* Client._event_hooks: kind -> list of hooks
    dispatch,  \* the _dispatch_event in flight: its event and its wrapper tasks
    calls,     \* how often each hook was invoked for the event dispatched last
    snapshot,  \* the generic and targeted hooks when that dispatch was called
    req,       \* the REST request in flight and the call that issued it
    warned,    \* Client._warned_about_no_search_nodes
    warnings,  \* the "No search only nodes available" warnings logged
    fallbacks  \* the get_tracks calls that found no search-only node

nodeVars == <<nodes, region, connected, stats>>
facadeVars == <<req, warned, warnings, fallbacks>>
busVars == <<hooks, dispatch, calls, snapshot>>
sessVars == <<hostport, resume_key, resume_timeout, search_only, reconnect_attempts, session, attempts, failures>>
penVars == <<pdata, pstats, inbox, handled>>
failVars == <<notified, removed>>
storeVars == <<query, table, now>>
playerVars == <<players, pobj, task, result, events, sent, popped>>

\* ------------------------------------------------------------------ Query
\* A string is a sequence of tokens; the inputs are the strings of up to
\* MaxLen tokens over an alphabet that has the search prefixes, the prefix of
\* a text-to-speech query, the head of a URL, the YouTube host, the marker of
\* a playlist in a YouTube URL and a word.
SearchPrefixes == {"ytsearch:", "ytmsearch:", "spsearch:", "scsearch:", "amsearch:"}
Alphabet == SearchPrefixes \cup {"speak:", "https://", "youtube.com/", "&list=", "x"}
Strings == UNION {[1..k -> Alphabet] : k \in 1..MaxLen}

\* `tok in query`
Contains(q, tok) == \E i \in 1..Len(q) : q[i] = tok

\* Query.__init__
Query(q, source, search, query_type) ==
    [query |-> q, source |-> source, search |-> search, type |-> query_type,
     start_time |-> 0, index |-> 0]

\* "no Query": what a __process method returns when nothing matches
NoQuery == Query(<<>>, "none", FALSE, "None")

\* query.py:53, re.match(YOUTUBE_REGEX, query): an optional scheme, then the host
MatchYoutube(q) ==
    \/ q[1] = "youtube.com/"
    \/ Len(q) >= 2 /\ q[1] = "https://" /\ q[2] = "youtube.com/"

\* the inputs have no "watch?", "playlist?" or "&index=": a URL with "list="
\* is a playlist, any other a single track
process_youtube(q) ==
    Query(q, "youtube", FALSE, IF Contains(q, "&list=") THEN "playlist" ELSE "single")

\* Query.__process_urls, for the hosts and prefixes of the alphabet
process_urls(q) ==
    IF MatchYoutube(q) THEN process_youtube(q)
    ELSE IF q[1] = "speak:"
    THEN Query(SelectSeq(q, LAMBDA tok : tok # "speak:"), "tts", TRUE, "None")
    ELSE IF q[1] = "https://" THEN Query(q, "http", FALSE, "None")
    ELSE NoQuery

\* query.py:294-303, the source of a search prefix
SearchSource(prefix) ==
    CASE prefix = "ytmsearch:" -> "youtube"
      [] prefix = "spsearch:" -> "spotify"
      [] prefix = "scsearch:" -> "soundcloud"
      [] prefix = "amsearch:" -> "applemusic"
      [] OTHER -> "youtube"

\* Query.__process_search
process_search(q) ==
    IF q[1] \in SearchPrefixes
    THEN Query(q, SearchSource(q[1]), TRUE, "None")
    ELSE NoQuery

\* the paths that exist: a file and a directory
Files == {<<"x">>}
Dirs == {<<"x", "x">>}

\* Query.__process_local: the absolute path of an existing file or directory
process_local(q) ==
    IF q \in Files \cup Dirs
    THEN Query(<<"/cwd/">> \o q, "local", FALSE, IF q \in Dirs THEN "album" ELSE "single")
    ELSE NoQuery

\* Query.from_query: a Query is returned as it is, a string is classified
from_query(arg) ==
    IF arg.cls = "Query" THEN arg.val
    ELSE LET q == arg.val
         IN IF process_urls(q) # NoQuery THEN process_urls(q)
            ELSE IF process_search(q) # NoQuery THEN process_search(q)
            ELSE IF process_local(q) # NoQuery THEN process_local(q)
            ELSE Query(q, "youtube", TRUE, "None")

\* Query.query_string: what is sent to the node
query_string(Q) ==
    IF Q.search
    THEN CASE Q.source = "youtube" -> <<"ytmsearch:">> \o Q.query
           [] Q.source = "spotify" -> <<"spsearch:">> \o Q.query
           [] Q.source = "applemusic" -> <<"amsearch:">> \o Q.query
           [] Q.source = "soundcloud" -> <<"scsearch:">> \o Q.query
           [] Q.source = "tts" -> <<"speak:">> \o Q.query
           [] OTHER -> <<"ytsearch:">> \o Q.query
    ELSE Q.query

QueryResult(op, arg, ret) == [op |-> op, arg |-> arg, ret |-> ret]

\* Query.from_query(arg), arg a string or the Query made last
FromQuery(arg) ==
    /\ query' = from_query(arg)
    /\ result' = QueryResult("from_query", arg, from_query(arg))
    /\ UNCHANGED <<table, now>>

\* the query_string of the Query made last is read
QueryString ==
    /\ query # NoQuery
    /\ result' = QueryResult("query_string", [cls |-> "Query", val |-> query],
                             query_string(query))
    /\ UNCHANGED <<query, table, now>>

StoreInit ==
    /\ query = NoQuery
    /\ table = {}
    /\ now = 0

\* ------------------------------------------------------------ query cache
\* QueryCacheManager over the table of QueryRow.  Time is counted in days; a
\* row is [identifier, last_updated].

\* query_manager.py:41 and 74, timedelta(days=30)
MaxAge == 30

\* what a Query object answers to: the attributes and properties of the class
QueryAttrs ==
    {"_query", "_search", "_type", "source", "start_time", "index",
     "is_http", "is_local", "is_single", "is_album", "is_playlist", "is_search",
     "query_string"}

\* query.query_identifier: the class has no such attribute and no __getattr__
AttributeError == <<"AttributeError">>
query_identifier(q) ==
    IF "query_identifier" \in QueryAttrs THEN <<q.source, q.query>> ELSE AttributeError

is_local(q) == q.source = "local"
is_http(q) == q.source = "http"
is_single(q) == q.type = "single"
is_playlist(q) == q.type = "playlist"
is_album(q) == q.type = "album"

CacheableNotLocal(q) == ~(is_single(q) \/ is_http(q))
\* the negation of the guard of get_query and of add_query
Cacheable(q) == ~(is_local(q) \/ is_single(q) \/ is_http(q))

\* the queries handed to the cache: a local file, a local directory, a
\* stream, a YouTube video, a YouTube playlist, a prefixed search, a bare text
CacheStrings ==
    {<<"x">>, <<"x", "x">>, <<"https://", "x">>, <<"youtube.com/", "x">>,
     <<"youtube.com/", "&list=">>, <<"ytmsearch:", "x">>, <<"x", "x", "x">>}
CacheQueries == {from_query([cls |-> "str", val |-> q]) : q \in CacheStrings}

\* the node's answers: result.get("loadType") and result.get("tracks", [])
LoadTypes == {"NO_MATCHES", "LOAD_FAILED", "None", "SEARCH_RESULT", "PLAYLIST_LOADED"}
LoadResults == [loadType : LoadTypes, tracks : {"missing", "empty", "some"}]
NoLoad == [loadType |-> "None", tracks |-> "missing"]

\* the rows a database holds from earlier runs
RowIds == {<<"id1">>, <<"id2">>}
StoredRows == [identifier : RowIds, last_updated : {0, 1}]

\* the WHERE clause of get_query on last_updated, at time t
Fresh(e, t) == e.last_updated > t - MaxAge

\* the WHERE clause of delete_old, at time t
OldStrict(e, t) == e.last_updated < t - MaxAge
Old(e, t) == e.last_updated <= t - MaxAge

CacheResult(op, arg, res, ret, rows) ==
    [op |-> op, arg |-> arg, res |-> res, ret |-> ret, rows |-> rows]

\* QueryModel(identifier, ...).save(): the row of the identifier is written
Save(id, t) ==
    {e \in table : e.identifier # id} \cup {[identifier |-> id, last_updated |-> t]}

\* QueryCacheManager.get_query(query)
get_query(q) ==
    /\ UNCHANGED <<query, table, now>>
    /\ IF ~Cacheable(q)
       THEN result' = CacheResult("get_query", q, NoLoad, "None", {})
       ELSE IF query_identifier(q) = AttributeError
       THEN result' = CacheResult("get_query", q, NoLoad, "AttributeError", {})
       ELSE LET found == {e \in table : /\ e.identifier = query_identifier(q)
                                        /\ Fresh(e, now)}
            IN IF found = {}
               THEN result' = CacheResult("get_query", q, NoLoad, "None", {})
               ELSE result' = CacheResult("get_query", q, NoLoad, "QueryModel", found)

\* QueryCacheManager.add_query(query, result)
add_query(q, res) ==
    /\ UNCHANGED <<query, now>>
    /\ IF ~Cacheable(q) \/ res.loadType \in {"NO_MATCHES", "LOAD_FAILED", "None"}
       THEN /\ result' = CacheResult("add_query", q, res, "None", {})
            /\ UNCHANGED table
       ELSE IF query_identifier(q) = AttributeError
       THEN /\ result' = CacheResult("add_query", q, res, "AttributeError", {})
            /\ UNCHANGED table
       ELSE IF res.tracks # "some"
       THEN /\ result' = CacheResult("add_query", q, res, "EntryNotFoundError", {})
            /\ UNCHANGED table
       ELSE /\ result' = CacheResult("add_query", q, res, "None", {})
            /\ table' = Save(query_identifier(q), now)

\* QueryCacheManager.delete_old()
delete_old ==
    /\ table' = {e \in table : ~Old(e, now)}
    /\ result' = CacheResult("delete_old", NoQuery, NoLoad, "None",
                             {e \in table : Old(e, now)})
    /\ UNCHANGED <<query, now>>

\* ------------------------------------------------------ Penalty and Stats
Scale == 100 ^ MaxExp

\* (b/100) ** k, in units of 1/Scale
PowScaled(b, k) == (b ^ k) * (100 ^ (MaxExp - k))

\* 500 * (frames / 3000)
FrameExp(frames) == (500 * frames) \div 3000

\* the penalty without the test for -1: 2 * (1.03 ** (-1/6) * 300 - 300) is
\* about -2.95
NullFramePenaltyNoGuard(st) ==
    IF st.frames_nulled # -1
    THEN 2 * (PowScaled(103, FrameExp(st.frames_nulled)) * 300 - 300 * Scale)
    ELSE 0 - ((295 * Scale) \div 100)
NullFramePenalty(st) ==
    IF st.frames_nulled # -1
    THEN 2 * (PowScaled(103, FrameExp(st.frames_nulled)) * 300 - 300 * Scale)
    ELSE 0

DeficitFramePenalty(st) ==
    IF st.frames_deficit # -1
    THEN PowScaled(103, FrameExp(st.frames_deficit)) * 600 - 600 * Scale
    ELSE 0

CpuPenalty(st) == PowScaled(105, st.system_load) * 10 - 10 * Scale

Penalty(st) ==
    LET player_penalty == st.playing_players * Scale
        cpu_penalty == CpuPenalty(st)
        null_frame_penalty == NullFramePenalty(st)
        deficit_frame_penalty == DeficitFramePenalty(st)
    IN [player_penalty |-> player_penalty,
        cpu_penalty |-> cpu_penalty,
        null_frame_penalty |-> null_frame_penalty,
        deficit_frame_penalty |-> deficit_frame_penalty,
        total |-> player_penalty + cpu_penalty + null_frame_penalty + deficit_frame_penalty]

\* The "stats" payload: frameStats is absent ({}) or one object, whose keys
\* "nulled" and "deficit" are each absent (-1 stands for the .get default).
FrameCounts == {-1} \cup {6 * k : k \in 0..MaxExp}
FrameStatsInputs == {{}} \cup {{[nulled |-> a, deficit |-> b]} : a \in FrameCounts, b \in FrameCounts}
DataInputs ==
    [playingPlayers : 0..MaxPlaying, systemLoad : 0..MaxExp, frameStats : FrameStatsInputs]
\* the reports the nodes of a pool send: idle CPU, no frame statistics, so
\* that the totals are 2.0 and 5.0
PoolReports ==
    [playingPlayers : {2, 5}, systemLoad : {0}, frameStats : {{}}]

FrameStat(data, key) ==
    IF data.frameStats = {} THEN -1
    ELSE LET fs == CHOOSE f \in data.frameStats : TRUE
         IN IF key = "nulled" THEN fs.nulled ELSE fs.deficit

Stats(data) ==
    LET st == [playing_players |-> data.playingPlayers,
               system_load |-> data.systemLoad,
               frames_nulled |-> FrameStat(data, "nulled"),
               frames_deficit |-> FrameStat(data, "deficit")]
    IN [playing_players |-> st.playing_players,
        system_load |-> st.system_load,
        frames_nulled |-> st.frames_nulled,
        frames_deficit |-> st.frames_deficit,
        penalty |-> Penalty(st)]

\* ------------------------------------------------------------------- Node
Regions == {"eu", "us"}
NodeIds == 1..MaxNodes

Registered == {nodes[i] : i \in 1..Len(nodes)}

availableAlways(n) == TRUE
available(n) == connected[n]

penaltyIgnoresStats(n) == IF ~available(n) THEN Sentinel ELSE 0
penaltyStatsOnly(n) ==
    IF stats[n] = {} THEN Sentinel
    ELSE (CHOOSE s \in stats[n] : TRUE).penalty.total
penalty(n) ==
    IF ~available(n) \/ stats[n] = {} THEN Sentinel
    ELSE (CHOOSE s \in stats[n] : TRUE).penalty.total

\* ------------------------------------------------------------ NodeManager
\* available_nodes, in registration order
available_nodes == SelectSeq(nodes, LAMBDA n : available(n))

\* min(candidates, key=penalty): the first candidate of minimal penalty
MinByPenalty(cands) ==
    LET i == CHOOSE i \in 1..Len(cands) :
                 /\ \A j \in 1..Len(cands) : penalty(cands[i]) <= penalty(cands[j])
                 /\ \A j \in 1..(i - 1) : penalty(cands[j]) > penalty(cands[i])
    IN cands[i]

\* the candidates of find_best_node: the available nodes of the region, or
\* all available nodes when the region is None or has no available node
CandidatesAnyRegion(r) == available_nodes
Candidates(r) ==
    LET regional == SelectSeq(available_nodes, LAMBDA n : region[n] = r)
    IN IF r # "none" /\ regional # <<>> THEN regional ELSE available_nodes

find_best_node(r) ==
    IF Candidates(r) = <<>> THEN None ELSE MinByPenalty(Candidates(r))

RegionArgs == Regions \cup {"none"}

\* ---------------------------------------------------------- node actions
Hosts == {"a", "b"}
Ports == {1, 2}
Identities == Hosts \X Ports
NoIdentity == <<"", 0>>

\* NodeManager.add_node: a node of that (host, port) is registered already
DuplicateNever(hp) == FALSE
Duplicate(hp) == \E n \in Registered : hostport[n] = hp

\* the (host, port) a caller that never repeats one passes next
FreshIdentity == CHOOSE hp \in Identities : ~Duplicate(hp)

\* Node.__init__, as the last node of the registry: the fields are set and the
\* WebSocket is constructed; NodeManager.add_node starts the session connecting
Register(hp, r, rk, rt, ra, so) ==
    LET n == Len(nodes) + Cardinality(removed) + 1
    IN /\ nodes' = Append(nodes, n)
       /\ region' = [region EXCEPT ![n] = r]
       /\ hostport' = [hostport EXCEPT ![n] = hp]
       /\ resume_key' = [resume_key EXCEPT ![n] = rk]
       /\ resume_timeout' = [resume_timeout EXCEPT ![n] = rt]
       /\ search_only' = [search_only EXCEPT ![n] = so]
       /\ reconnect_attempts' = [reconnect_attempts EXCEPT ![n] = ra]
       /\ session' = [session EXCEPT ![n] = "Connecting"]
       /\ attempts' = [attempts EXCEPT ![n] = 0]
       /\ UNCHANGED <<connected, stats, failures>>

\* Client.add_node with a (host, port) not registered yet and the defaults of
\* its optional parameters
AddNode(limit, regions) ==
    /\ Len(nodes) < limit
    /\ \E r \in regions :
           Register(FreshIdentity, r, FALSE, DefaultResumeTimeout, DefaultReconnectAttempts, FALSE)

\* node.py:204, the cap the WebSocket is constructed with
WsReconnectAttemptsOneMore(n) == reconnect_attempts[n] + 1
WsReconnectAttemptsDefault(n) == DefaultReconnectAttempts
WsReconnectAttempts(n) == reconnect_attempts[n]

\* the states in which the session runs the connect step
Retrying == {"Connecting", "Resuming", "Reconnecting"}

\* the session may run the connect step once more
CanAttempt(n) ==
    \/ session[n] = "Connecting"
    \/ /\ session[n] \in {"Resuming", "Reconnecting"}
       /\ \/ WsReconnectAttempts(n) = Unlimited
          \/ attempts[n] < WsReconnectAttempts(n)

\* the handshake succeeds: Connected, and the counter is reset
WsConnectKeepsCounter(n) ==
    /\ n \in Registered
    /\ ~connected[n]
    /\ CanAttempt(n)
    /\ connected' = [connected EXCEPT ![n] = TRUE]
    /\ session' = [session EXCEPT ![n] = "Connected"]
    /\ UNCHANGED <<nodes, region, stats, hostport, resume_key, resume_timeout, search_only,
                   reconnect_attempts, attempts, failures>>
WsConnect(n) ==
    /\ n \in Registered
    /\ ~connected[n]
    /\ CanAttempt(n)
    /\ connected' = [connected EXCEPT ![n] = TRUE]
    /\ session' = [session EXCEPT ![n] = "Connected"]
    /\ attempts' = [attempts EXCEPT ![n] = 0]
    /\ UNCHANGED <<nodes, region, stats, hostport, resume_key, resume_timeout, search_only,
                   reconnect_attempts, failures>>

\* the session may be resumed: a resume key is set and the node still keeps
\* the session (the timeout, which runs from the closure, has not elapsed)
CanResumeIgnoresTimeout(n) == resume_key[n]
CanResume(n) == resume_key[n] /\ resume_timeout[n] > 0

\* the socket closes unexpectedly
WsDisconnect(n) ==
    /\ n \in Registered
    /\ connected[n]
    /\ connected' = [connected EXCEPT ![n] = FALSE]
    /\ session' = [session EXCEPT ![n] =
                      IF CanResume(n) THEN "Resuming" ELSE "Disconnected"]
    /\ UNCHANGED <<nodes, region, stats, hostport, resume_key, resume_timeout, search_only,
                   reconnect_attempts, attempts, failures>>

\* the session gave up: its reconnect loop has ended
Terminal(n) == session[n] = "Disconnected" /\ failures[n] > 0

\* after a closure that cannot be resumed the reconnect loop starts
WsReconnect(n) ==
    /\ n \in Registered
    /\ session[n] = "Disconnected"
    /\ ~Terminal(n)
    /\ session' = [session EXCEPT ![n] = "Reconnecting"]
    /\ UNCHANGED <<nodeVars, hostport, resume_key, resume_timeout, search_only,
                   reconnect_attempts, attempts, failures>>

\* the first connect step fails: the session starts to retry
WsConnectFails(n) ==
    /\ n \in Registered
    /\ session[n] = "Connecting"
    /\ session' = [session EXCEPT ![n] = "Reconnecting"]
    /\ UNCHANGED <<nodeVars, hostport, resume_key, resume_timeout, search_only,
                   reconnect_attempts, attempts, failures>>

\* a retry of the connect step fails
WsRetryFails(n) ==
    /\ n \in Registered
    /\ session[n] \in {"Resuming", "Reconnecting"}
    /\ CanAttempt(n)
    /\ attempts[n] < MaxRetries
    /\ attempts' = [attempts EXCEPT ![n] = attempts[n] + 1]
    /\ UNCHANGED <<nodeVars, hostport, resume_key, resume_timeout, search_only,
                   reconnect_attempts, session, failures>>

\* the retries are used up, one node-failure event, but the session keeps retrying
WsGiveUpKeepsRetrying(n) ==
    /\ n \in Registered
    /\ session[n] \in {"Resuming", "Reconnecting"}
    /\ ~CanAttempt(n)
    /\ failures[n] < MaxRetries
    /\ failures' = [failures EXCEPT ![n] = failures[n] + 1]
    /\ UNCHANGED <<nodeVars, hostport, resume_key, resume_timeout, search_only,
                   reconnect_attempts, attempts, session>>

\* the retries are used up: terminal Disconnected, one node-failure event
WsGiveUp(n) ==
    /\ n \in Registered
    /\ session[n] \in {"Resuming", "Reconnecting"}
    /\ ~CanAttempt(n)
    /\ session' = [session EXCEPT ![n] = "Disconnected"]
    /\ failures' = [failures EXCEPT ![n] = failures[n] + 1]
    /\ UNCHANGED <<nodeVars, hostport, resume_key, resume_timeout, search_only,
                   reconnect_attempts, attempts>>

StatsReport(n) ==
    /\ n \in Registered
    /\ connected[n]
    /\ \E d \in PoolReports : stats' = [stats EXCEPT ![n] = {Stats(d)}]
    /\ UNCHANGED <<nodes, region, connected, sessVars>>

NodeInit ==
    /\ nodes = <<>>
    /\ region = [n \in NodeIds |-> "eu"]
    /\ connected = [n \in NodeIds |-> FALSE]
    /\ stats = [n \in NodeIds |-> {}]
    /\ hostport = [n \in NodeIds |-> NoIdentity]
    /\ resume_key = [n \in NodeIds |-> FALSE]
    /\ resume_timeout = [n \in NodeIds |-> DefaultResumeTimeout]
    /\ search_only = [n \in NodeIds |-> FALSE]
    /\ reconnect_attempts = [n \in NodeIds |-> DefaultReconnectAttempts]
    /\ session = [n \in NodeIds |-> "Disconnected"]
    /\ attempts = [n \in NodeIds |-> 0]
    /\ failures = [n \in NodeIds |-> 0]

\* ---------------------------------------------------------- PlayerManager
Guilds == 1..MaxGuilds
Channels == 1..MaxChannels
Tasks == 1..MaxTasks

\* NodeManager.get_region: the static endpoint -> region table; an endpoint
\* that is None or unknown gives no region
Endpoints == {"none", "eu-central1.discord.media", "us-east1.discord.media"}
get_region(endpoint) ==
    CASE endpoint = "eu-central1.discord.media" -> "eu"
      [] endpoint = "us-east1.discord.media" -> "us"
      [] OTHER -> "none"

\* A coroutine between two suspension points keeps only the locals it still
\* reads: guild, channel and best_node up to post_init, guild and player after.
Idle ==
    [pc |-> "idle", guild |-> 0, channel |-> 0, explicit |-> FALSE,
     node |-> None, player |-> None]

\* What the step just taken handed to the caller of a PlayerManager method,
\* NoResult when the step ends no call: `ret` is "player" (the Player `player`
\* is returned), "None" or the exception raised; `via` is the path taken
\* through the method.
NoResult ==
    [op |-> "none", guild |-> 0, channel |-> 0, via |-> "none", ret |-> "none",
     player |-> None]

Outcome(op, g, ch, via, ret, p) ==
    [op |-> op, guild |-> g, channel |-> ch, via |-> via, ret |-> ret, player |-> p]

PlayerInit ==
    /\ players = [g \in Guilds |-> None]
    /\ pobj = <<>>
    /\ task = [t \in Tasks |-> Idle]
    /\ result = NoResult
    /\ events = {}
    /\ sent = {}
    /\ popped = {}

\* creates awaiting channel.connect, each about to construct a Player
Constructing == {t \in Tasks : task[t].pc = "c_connect"}

\* player_manager.py:180, `channel.id != p.channel_id`
NeedsMoveAlways(ch, p) == TRUE
NeedsMoveNever(ch, p) == FALSE
NeedsMove(ch, p) == ch # pobj[p].channel

\* player_manager.py:187, `not best_node`
NoNodeNever(best) == FALSE
NoNode(best) == best = None

\* player_manager.py:66, `guild_id not in self.players`
AbsentNever(g) == FALSE
Absent(g) == players[g] = None

\* player_manager.py:71, `player.node and player.node.available`
ShouldSendDestroyAnyNode(p) == pobj[p].node # None
ShouldSendDestroy(p) == pobj[p].node # None /\ available(pobj[p].node)

\* create, from the call to its first suspension (or its return)
CreateCall(t, g, ch, ep, nd) ==
    /\ task[t].pc = "idle"
    /\ nd \in {None} \cup Registered
    /\ IF players[g] # None
       THEN LET p == players[g]
            IN IF NeedsMove(ch, p)
               THEN \* await p.move_to(requester, channel)
                    /\ task' = [task EXCEPT ![t] =
                                   [Idle EXCEPT !.pc = "c_move_existing", !.guild = g,
                                                !.channel = ch, !.player = p]]
                    /\ result' = NoResult
               ELSE /\ result' = Outcome("create", g, ch, "same", "player", p)
                    /\ task' = task
       ELSE LET best == IF nd # None THEN nd ELSE find_best_node(get_region(ep))
            IN IF NoNode(best)
               THEN /\ result' = Outcome("create", g, ch, "new", "NoNodeAvailable", None)
                    /\ task' = task
               ELSE \* await channel.connect(cls=Player)
                    /\ Len(pobj) + Cardinality(Constructing) < MaxPlayers
                    /\ task' = [task EXCEPT ![t] =
                                   [Idle EXCEPT !.pc = "c_connect", !.guild = g,
                                                !.channel = ch, !.explicit = (nd # None),
                                                !.node = best]]
                    /\ result' = NoResult
    /\ UNCHANGED <<players, pobj, events, sent, popped>>

\* p.move_to of an existing Player completes: create returns p
CreateMovedExisting(t) ==
    /\ task[t].pc = "c_move_existing"
    /\ LET p == task[t].player
       IN /\ pobj' = [pobj EXCEPT ![p].channel = task[t].channel]
          /\ result' = Outcome("create", task[t].guild, task[t].channel, "move", "player", p)
    /\ task' = [task EXCEPT ![t] = Idle]
    /\ UNCHANGED <<players, events, sent, popped>>

\* channel.connect completes: the Player is constructed and the voice
\* connection made; post_init binds the node; await player.move_to
CreateConnected(t) ==
    /\ task[t].pc = "c_connect"
    /\ pobj' = Append(pobj, [guild |-> task[t].guild, node |-> task[t].node,
                             channel |-> task[t].channel, is_connected |-> TRUE])
    /\ task' = [task EXCEPT ![t] =
                   [Idle EXCEPT !.pc = "c_move", !.guild = task[t].guild,
                                !.player = Len(pobj) + 1]]
    /\ result' = NoResult
    /\ UNCHANGED <<players, events, sent, popped>>

\* channel.connect raises (timeout, refused): create raises with it
CreateConnectFails(t) ==
    /\ task[t].pc = "c_connect"
    /\ result' = Outcome("create", task[t].guild, task[t].channel, "new", "ConnectError", None)
    /\ task' = [task EXCEPT ![t] = Idle]
    /\ UNCHANGED <<players, pobj, events, sent, popped>>

\* player.move_to completes: await best_node.dispatch_event(PlayerConnectedEvent)
CreateMovedNoEvent(t) ==
    /\ task[t].pc = "c_move"
    /\ task' = [task EXCEPT ![t].pc = "c_dispatch"]
    /\ result' = NoResult
    /\ UNCHANGED <<players, pobj, events, sent, popped>>
CreateMoved(t) ==
    /\ task[t].pc = "c_move"
    /\ events' = events \cup {[kind |-> "PlayerConnectedEvent", player |-> task[t].player]}
    /\ task' = [task EXCEPT ![t].pc = "c_dispatch"]
    /\ result' = NoResult
    /\ UNCHANGED <<players, pobj, sent, popped>>

\* dispatch_event completes: the Player is registered and returned
CreateDispatched(t) ==
    /\ task[t].pc = "c_dispatch"
    /\ players' = [players EXCEPT ![task[t].guild] = task[t].player]
    /\ result' = Outcome("create", task[t].guild, pobj[task[t].player].channel, "new", "player",
                         task[t].player)
    /\ task' = [task EXCEPT ![t] = Idle]
    /\ UNCHANGED <<pobj, events, sent, popped>>

\* destroy, from the call to its first suspension (or its return)
DestroyCall(t, g) ==
    /\ task[t].pc = "idle"
    /\ IF Absent(g)
       THEN /\ result' = Outcome("destroy", g, 0, "absent", "None", None)
            /\ UNCHANGED <<players, sent, popped, task>>
       ELSE IF players[g] = None
       THEN \* self.players.pop(guild_id) of a missing key
            /\ result' = Outcome("destroy", g, 0, "pop", "KeyError", None)
            /\ UNCHANGED <<players, sent, popped, task>>
       ELSE LET p == players[g]
            IN /\ players' = [players EXCEPT ![g] = None]
               /\ popped' = popped \cup {p}
               /\ IF ShouldSendDestroy(p)
                  THEN \* await player.node.send(op="destroy", guildId=...)
                       /\ sent' = sent \cup
                              {[node |-> pobj[p].node, op |-> "destroy",
                                guildId |-> pobj[p].guild, player |-> p,
                                live |-> connected[pobj[p].node]]}
                       /\ task' = [task EXCEPT ![t] =
                                      [Idle EXCEPT !.pc = "d_send", !.guild = g,
                                                   !.player = p]]
                       /\ result' = NoResult
                  ELSE /\ sent' = sent
                       /\ task' = task
                       /\ result' = Outcome("destroy", g, 0, "pop",
                                            IF pobj[p].node = None
                                            THEN "AttributeError"  \* player.node.name
                                            ELSE "None", p)
    /\ UNCHANGED <<pobj, events>>

\* node.send completes: player.disconnect(requester), then destroy returns
DestroySent(t) ==
    /\ task[t].pc = "d_send"
    /\ pobj' = [pobj EXCEPT ![task[t].player].is_connected = FALSE]
    /\ result' = Outcome("destroy", task[t].guild, 0, "send", "None",
                         task[t].player)
    /\ task' = [task EXCEPT ![t] = Idle]
    /\ UNCHANGED <<players, events, sent, popped>>

\* remove (synchronous): pop the Player, if any, and player.cleanup()
RemoveCallSendsDestroy(t, g) ==
    /\ task[t].pc = "idle"
    /\ IF players[g] # None
       THEN LET p == players[g]
            IN /\ players' = [players EXCEPT ![g] = None]
               /\ popped' = popped \cup {p}
               /\ sent' = sent \cup
                      {[node |-> pobj[p].node, op |-> "destroy",
                        guildId |-> pobj[p].guild, player |-> p,
                        live |-> connected[pobj[p].node]]}
               /\ result' = Outcome("remove", g, 0, "pop", "None", p)
       ELSE /\ result' = Outcome("remove", g, 0, "absent", "None", None)
            /\ UNCHANGED <<players, popped, sent>>
    /\ UNCHANGED <<pobj, task, events>>
RemoveCall(t, g) ==
    /\ task[t].pc = "idle"
    /\ IF players[g] # None
       THEN LET p == players[g]
            IN /\ players' = [players EXCEPT ![g] = None]
               /\ popped' = popped \cup {p}
               /\ result' = Outcome("remove", g, 0, "pop", "None", p)
       ELSE /\ result' = Outcome("remove", g, 0, "absent", "None", None)
            /\ UNCHANGED <<players, popped>>
    /\ UNCHANGED <<pobj, task, events, sent>>

\* ---------------------------------------------------------------- EventBus
Handlers == 1..MaxHooks
EventKinds == {"TrackStartEvent", "TrackEndEvent"}
HookKinds == {"Generic"} \cup EventKinds

Count(h, q) == Cardinality({i \in 1..Len(q) : q[i] = h})

\* client.py:146, `hook not in self._event_hooks["Generic"]`
HookAbsentAlways(h) == TRUE
HookAbsent(h) == Count(h, hooks["Generic"]) = 0

\* add_event_hook (synchronous)
add_event_hook(h) ==
    /\ hooks' = IF HookAbsent(h)
                THEN [hooks EXCEPT !["Generic"] = Append(@, h)]
                ELSE hooks
    /\ result' = [op |-> "subscribe", hook |-> h, kind |-> "Generic",
                  known |-> Count(h, hooks["Generic"]) > 0]
    /\ UNCHANGED <<dispatch, calls, snapshot>>

\* registration of a hook for the events of one kind: a no-op when the hook
\* is registered for that kind
subscribe(h, k) ==
    /\ hooks' = IF Count(h, hooks[k]) = 0
                THEN [hooks EXCEPT ![k] = Append(@, h)]
                ELSE hooks
    /\ result' = [op |-> "subscribe", hook |-> h, kind |-> k,
                  known |-> Count(h, hooks[k]) > 0]
    /\ UNCHANGED <<dispatch, calls, snapshot>>

\* the kind of event a hook of the application is written for
KindOf(h) == IF h % 2 = 1 THEN "TrackStartEvent" ELSE "TrackEndEvent"

\* client.py:355, itertools.chain(generic_hooks, targeted_hooks)
HookChainTargeted(k) == hooks[k]
HookChain(k) == hooks["Generic"] \o hooks[k]

\* a wrapper task has ended: the hook returned, its exception was caught by
\* _hook_wrapper, or the wrapper itself failed (an exception that is no
\* Exception, or a hook without __name__) and keeps the exception in its Task
Settled == {"returned", "caught", "failed"}

\* client.py:356, asyncio.wait(tasks) returns when all tasks are done
WaitDoneFirst(ts) == \E i \in 1..Len(ts) : ts[i].state \in Settled
WaitDone(ts) == \A i \in 1..Len(ts) : ts[i].state \in Settled

NoDispatch == [pc |-> "idle", kind |-> "none", tasks |-> <<>>]
NoCalls == [h \in Handlers |-> 0]
NoSnapshot == [generic |-> <<>>, targeted |-> <<>>]

\* _dispatch_event, from the call to `await asyncio.wait(tasks)` (or to the
\* return when no hook is registered)
DispatchCall(k) ==
    /\ dispatch.pc = "idle"
    /\ snapshot' = [generic |-> hooks["Generic"], targeted |-> hooks[k]]
    /\ calls' = NoCalls
    /\ IF hooks["Generic"] = <<>> /\ hooks[k] = <<>>
       THEN /\ dispatch' = NoDispatch
            /\ result' = [op |-> "publish", kind |-> k, via |-> "no hooks", ret |-> "None"]
       ELSE /\ dispatch' = [pc |-> "wait", kind |-> k,
                            tasks |-> [i \in 1..Len(HookChain(k)) |->
                                          [hook |-> HookChain(k)[i], state |-> "pending"]]]
            /\ result' = NoResult
    /\ UNCHANGED hooks

\* a wrapper task runs `await hook(event_)` up to the hook's first suspension
\* or to its end
HandlerStart(i) ==
    /\ dispatch.pc = "wait"
    /\ i \in 1..Len(dispatch.tasks)
    /\ dispatch.tasks[i].state = "pending"
    /\ calls' = [calls EXCEPT ![dispatch.tasks[i].hook] = @ + 1]
    /\ \E st \in Settled \cup {"suspended"} :
           dispatch' = [dispatch EXCEPT !.tasks[i].state = st]
    /\ result' = NoResult
    /\ UNCHANGED <<hooks, snapshot>>

\* a suspended hook is resumed and ends
HandlerResume(i) ==
    /\ dispatch.pc = "wait"
    /\ i \in 1..Len(dispatch.tasks)
    /\ dispatch.tasks[i].state = "suspended"
    /\ \E st \in Settled : dispatch' = [dispatch EXCEPT !.tasks[i].state = st]
    /\ result' = NoResult
    /\ UNCHANGED <<hooks, calls, snapshot>>

\* asyncio.wait returns; _dispatch_event logs and returns None
DispatchReturn ==
    /\ dispatch.pc = "wait"
    /\ WaitDone(dispatch.tasks)
    /\ dispatch' = [dispatch EXCEPT !.pc = "idle"]
    /\ result' = [op |-> "publish", kind |-> dispatch.kind, via |-> "wait", ret |-> "None"]
    /\ UNCHANGED <<hooks, calls, snapshot>>

BusInit ==
    /\ hooks = [k \in HookKinds |-> <<>>]
    /\ dispatch = NoDispatch
    /\ calls = NoCalls
    /\ snapshot = NoSnapshot

\* ------------------------------------------------------- Client and REST
Range(q) == {q[i] : i \in 1..Len(q)}

\* NodeManager.search_only_nodes: the available nodes flagged search-only
search_only_nodes == SelectSeq(available_nodes, LAMBDA n : search_only[n])

\* Node.password: the secret the node was registered with, one per node
Password(n) == <<"password", n>>

NoRequest ==
    [pc |-> "idle", op |-> "none", node |-> None, first |-> FALSE,
     method |-> "none", path |-> "none", authorization |-> <<"none", 0>>,
     json |-> "none", search_only_nodes |-> FALSE, explicit |-> FALSE]

\* the request a Node method issues: node.py:373-375, 388-390, 401-402,
\* 419-420, 442-446, 458-460
Request(op, n, first, so, explicit) ==
    [pc |-> "http", op |-> op, node |-> n, first |-> first,
     method |-> IF op \in {"routeplanner_free_address", "routeplanner_free_all_failing"}
                THEN "POST" ELSE "GET",
     path |-> CASE op = "get_tracks" -> "/loadtracks"
                [] op = "decode_track" -> "/decodetrack"
                [] op = "decode_tracks" -> "/decodetracks"
                [] op = "routeplanner_status" -> "/routeplanner/status"
                [] op = "routeplanner_free_address" -> "/route planner/free/address"
                [] op = "routeplanner_free_all_failing" -> "/route planner/free/all",
     authorization |-> Password(n),
     json |-> CASE op = "decode_tracks" -> "tracks"
                [] op = "routeplanner_free_address" -> "address"
                [] OTHER -> "none",
     search_only_nodes |-> so, explicit |-> explicit]

\* client.py:229, `not self._warned_about_no_search_nodes`
ShouldWarnAlways == TRUE
ShouldWarn == ~warned

\* client.py:228, the search-only pool is empty
NoSearchNodes == search_only_nodes = <<>>

\* client.py:226-234, the pool get_tracks chooses from
Pool(so) == IF so /\ ~NoSearchNodes THEN search_only_nodes ELSE available_nodes

\* client.py:238, `node or random.choice(list(nodes))`
Targets(nd, pool) == IF nd # None THEN {nd} ELSE Range(pool)

\* Client.get_tracks, from the call to the HTTP request of Node.get_tracks
GetTracksCall(nd, so, first) ==
    /\ req.pc = "idle"
    /\ nd \in {None} \cup Registered
    /\ LET fallback == so /\ NoSearchNodes
       IN /\ fallback => fallbacks < MaxFallbacks
          /\ fallbacks' = IF fallback THEN fallbacks + 1 ELSE fallbacks
          /\ warnings' = IF fallback /\ ShouldWarn THEN warnings + 1 ELSE warnings
          /\ warned' = IF fallback /\ ShouldWarn THEN TRUE ELSE warned
    /\ IF Pool(so) = <<>>
       THEN /\ result' = [op |-> "get_tracks", node |-> nd, search_only_nodes |-> so,
                          ret |-> "NodeException", status |-> 0]
            /\ req' = req
       ELSE /\ \E n \in Targets(nd, Pool(so)) :
                   req' = Request("get_tracks", n, first, so, nd # None)
            /\ result' = NoResult

\* Client.decode_track and Client.decode_tracks, likewise
DecodeCall(op, nd) ==
    /\ req.pc = "idle"
    /\ nd \in {None} \cup Registered
    /\ IF available_nodes = <<>>
       THEN /\ result' = [op |-> op, node |-> nd, search_only_nodes |-> FALSE,
                          ret |-> "NodeException", status |-> 0]
            /\ req' = req
       ELSE /\ \E n \in Targets(nd, available_nodes) :
                   req' = Request(op, n, FALSE, FALSE, nd # None)
            /\ result' = NoResult
    /\ UNCHANGED <<warned, warnings, fallbacks>>

\* Client.routeplanner_status, routeplanner_free_address and
\* routeplanner_free_all_failing forward to the node given
RoutePlannerCall(op, nd) ==
    /\ req.pc = "idle"
    /\ nd \in Registered
    /\ req' = Request(op, nd, FALSE, FALSE, TRUE)
    /\ result' = NoResult
    /\ UNCHANGED <<warned, warnings, fallbacks>>

Statuses == {200, 204, 401, 403, 500}
Bodies == {"tracks", "no tracks"}

\* what a Node method makes of the response
RestReturnNoAuthCheck(op, first, status, body) ==
    CASE op = "get_tracks" ->
             IF status = 200
             THEN IF ~first THEN "json"
                  ELSE IF body = "tracks" THEN "track" ELSE "IndexError"
             ELSE "[]"
      [] op \in {"decode_track", "routeplanner_status"} ->
             IF status = 200 THEN "json" ELSE "None"
      [] op = "decode_tracks" ->
             IF status = 200 THEN "json" ELSE "[]"
      [] op \in {"routeplanner_free_address", "routeplanner_free_all_failing"} ->
             IF status = 204 THEN "True" ELSE "False"
RestReturn(op, first, status, body) ==
    CASE op = "get_tracks" ->
             IF status = 200
             THEN IF ~first THEN "json"
                  ELSE IF body = "tracks" THEN "track" ELSE "IndexError"
             ELSE IF status \in {401, 403} THEN "Unauthorized" ELSE "[]"
      [] op \in {"decode_track", "routeplanner_status"} ->
             IF status = 200 THEN "json"
             ELSE IF status \in {401, 403} THEN "Unauthorized" ELSE "None"
      [] op = "decode_tracks" ->
             IF status = 200 THEN "json"
             ELSE IF status \in {401, 403} THEN "Unauthorized" ELSE "[]"
      [] op \in {"routeplanner_free_address", "routeplanner_free_all_failing"} ->
             IF status = 204 THEN "True" ELSE "False"

\* the node answers: the Node method returns or raises, and so does the
\* Client method that awaited it
RestResponse(status, body) ==
    /\ req.pc = "http"
    /\ result' = [op |-> req.op, node |-> req.node, search_only_nodes |-> req.search_only_nodes,
                  ret |-> RestReturn(req.op, req.first, status, body), status |-> status]
    /\ req' = NoRequest
    /\ UNCHANGED <<warned, warnings, fallbacks>>

\* client.py:95, ClientTimeout(total=30): no answer in time
RestTimeout ==
    /\ req.pc = "http"
    /\ result' = [op |-> req.op, node |-> req.node, search_only_nodes |-> req.search_only_nodes,
                  ret |-> "TimeoutError", status |-> 0]
    /\ req' = NoRequest
    /\ UNCHANGED <<warned, warnings, fallbacks>>

FacadeInit ==
    /\ req = NoRequest
    /\ warned = FALSE
    /\ warnings = 0
    /\ fallbacks = 0

\* ------------------------------------------------- penalty specification
StatsInit ==
    /\ \E d \in DataInputs :
           /\ pdata' = d
           /\ pstats' = {Stats(d)}
    /\ UNCHANGED <<inbox, handled>>
    /\ UNCHANGED <<failVars, storeVars, nodeVars, sessVars, playerVars, busVars, facadeVars>>

PenaltyInit ==
    /\ pdata \in DataInputs
    /\ pstats = {}
    /\ inbox = <<>>
    /\ handled = 0
    /\ notified = {}
    /\ removed = {}
    /\ StoreInit
    /\ NodeInit
    /\ PlayerInit
    /\ BusInit
    /\ FacadeInit

vars == <<pdata, pstats, inbox, handled, notified, removed, query, table, now, nodes, region, connected, stats,
          players, pobj, task, result, events, sent, popped,
          hostport, resume_key, resume_timeout, search_only, reconnect_attempts, session,
          attempts, failures, hooks, dispatch, calls, snapshot,
          req, warned, warnings, fallbacks>>

SpecPenalty == PenaltyInit /\ [][StatsInit]_vars

\* ---------------------------------------------------- node specification
NodesInit ==
    /\ pdata = [playingPlayers |-> 0, systemLoad |-> 0, frameStats |-> {}]
    /\ pstats = {}
    /\ inbox = <<>>
    /\ handled = 0
    /\ notified = {}
    /\ removed = {}
    /\ StoreInit
    /\ NodeInit
    /\ PlayerInit
    /\ BusInit
    /\ FacadeInit

NextNodes ==
    \/ AddNode(MaxNodes, Regions) /\ UNCHANGED <<failVars, storeVars, penVars, playerVars, busVars, facadeVars>>
    \/ \E n \in NodeIds : WsConnect(n) /\ UNCHANGED <<failVars, storeVars, penVars, playerVars, busVars, facadeVars>>
    \/ \E n \in NodeIds : WsDisconnect(n) /\ UNCHANGED <<failVars, storeVars, penVars, playerVars, busVars, facadeVars>>
    \/ \E n \in NodeIds : WsReconnect(n) /\ UNCHANGED <<failVars, storeVars, penVars, playerVars, busVars, facadeVars>>
    \/ \E n \in NodeIds : StatsReport(n) /\ UNCHANGED <<failVars, storeVars, penVars, playerVars, busVars, facadeVars>>

SpecNodes == NodesInit /\ [][NextNodes]_vars

\* -------------------------------------------------- player specification
\* The pool the players are placed on: nodes of one region that have sent no
\* stats yet (their penalties are all the sentinel, so find_best_node takes the
\* first available one); selection by penalty is the node specification's.
PoolRegions == {"eu"}

\* Client.add_node(..., resume_key=key) with a (host, port) not registered
\* yet: the sessions of the pool are resumed after a closure
AddPoolNode(limit) ==
    /\ Len(nodes) < limit
    /\ \E r \in PoolRegions :
           Register(FreshIdentity, r, TRUE, DefaultResumeTimeout, DefaultReconnectAttempts,
                    FALSE)

\* create's endpoint and node arguments: the endpoint is read only when no
\* node is given
CreateArgs ==
    {[endpoint |-> ep, node |-> None] : ep \in Endpoints}
        \cup {[endpoint |-> "none", node |-> n] : n \in NodeIds}

\* a new call runs in the first free coroutine slot (the slots are alike)
FreeSlot(t) == task[t].pc = "idle" /\ \A u \in 1..(t - 1) : task[u].pc # "idle"

\* a step outside the PlayerManager ends no call of it
NodeStep == result' = NoResult /\ UNCHANGED <<players, pobj, task, events, sent, popped>>

Init == NodesInit

\* The caller of a call that has just returned or raised takes the result
\* before anything else runs; `result` is read by no other step.
Quiet == result = NoResult
Observe ==
    /\ result # NoResult
    /\ result' = NoResult
    /\ UNCHANGED <<failVars, storeVars, penVars, nodeVars, sessVars, busVars, facadeVars, players, pobj, task, events, sent, popped>>

Next ==
    \/ Observe
    \/ Quiet /\ AddPoolNode(MaxPoolNodes) /\ UNCHANGED <<failVars, storeVars, penVars, busVars, facadeVars>> /\ NodeStep
    \/ Quiet /\ \E n \in NodeIds : WsConnect(n) /\ UNCHANGED <<failVars, storeVars, penVars, busVars, facadeVars>> /\ NodeStep
    \/ Quiet /\ \E n \in NodeIds : WsDisconnect(n) /\ UNCHANGED <<failVars, storeVars, penVars, busVars, facadeVars>> /\ NodeStep
    \/ Quiet /\ \E t \in Tasks, g \in Guilds, ch \in Channels, a \in CreateArgs :
           FreeSlot(t) /\ CreateCall(t, g, ch, a.endpoint, a.node) /\ UNCHANGED <<failVars, storeVars, penVars, nodeVars, sessVars, busVars, facadeVars>>
    \/ Quiet /\ \E t \in Tasks : CreateMovedExisting(t) /\ UNCHANGED <<failVars, storeVars, penVars, nodeVars, sessVars, busVars, facadeVars>>
    \/ Quiet /\ \E t \in Tasks : CreateConnected(t) /\ UNCHANGED <<failVars, storeVars, penVars, nodeVars, sessVars, busVars, facadeVars>>
    \/ Quiet /\ \E t \in Tasks : CreateConnectFails(t) /\ UNCHANGED <<failVars, storeVars, penVars, nodeVars, sessVars, busVars, facadeVars>>
    \/ Quiet /\ \E t \in Tasks : CreateMoved(t) /\ UNCHANGED <<failVars, storeVars, penVars, nodeVars, sessVars, busVars, facadeVars>>
    \/ Quiet /\ \E t \in Tasks : CreateDispatched(t) /\ UNCHANGED <<failVars, storeVars, penVars, nodeVars, sessVars, busVars, facadeVars>>
    \/ Quiet /\ \E t \in Tasks, g \in Guilds : FreeSlot(t) /\ DestroyCall(t, g) /\ UNCHANGED <<failVars, storeVars, penVars, nodeVars, sessVars, busVars, facadeVars>>
    \/ Quiet /\ \E t \in Tasks : DestroySent(t) /\ UNCHANGED <<failVars, storeVars, penVars, nodeVars, sessVars, busVars, facadeVars>>
    \/ Quiet /\ \E t \in Tasks, g \in Guilds : FreeSlot(t) /\ RemoveCall(t, g) /\ UNCHANGED <<failVars, storeVars, penVars, nodeVars, sessVars, busVars, facadeVars>>

Spec == Init /\ [][Next]_vars

\* ------------------------------------------------- session specification
\* Every call of this specification hands its outcome to the caller in
\* `result`, as a record whose fields depend on the call (`op`).

\* Client.add_node -> NodeManager.add_node: DuplicateNode when the (host, port)
\* is registered, else the Node is constructed and registered
add_node(limit, hp, r, rk, rt, ra) ==
    IF Duplicate(hp)
    THEN /\ result' = [op |-> "add_node", hostport |-> hp, reconnect_attempts |-> ra,
                       ret |-> "DuplicateNode", node |-> None]
         /\ UNCHANGED <<nodeVars, sessVars>>
    ELSE /\ Len(nodes) < limit
         /\ Register(hp, r, rk, rt, ra, FALSE)
         /\ result' = [op |-> "add_node", hostport |-> hp, reconnect_attempts |-> ra,
                       ret |-> "None", node |-> Len(nodes) + 1]

\* the keyword arguments of a send
Payloads == [op : {"play", "stop"}, guildId : {1}]

\* WebSocket.send: NotConnected unless the session is Connected, else the
\* payload is written to the transport as it is
WebSocketSendAnyState(n, d) ==
    /\ sent' = sent \cup {[node |-> n, op |-> d.op, guildId |-> d.guildId,
                           player |-> None, live |-> connected[n]]}
    /\ result' = [op |-> "send", node |-> n, data |-> d, ret |-> "None"]
WebSocketSend(n, d) ==
    IF session[n] = "Connected"
    THEN /\ sent' = sent \cup {[node |-> n, op |-> d.op, guildId |-> d.guildId,
                                player |-> None, live |-> connected[n]]}
         /\ result' = [op |-> "send", node |-> n, data |-> d, ret |-> "None"]
    ELSE /\ sent' = sent
         /\ result' = [op |-> "send", node |-> n, data |-> d, ret |-> "NotConnected"]

\* Node.send(**data): await self.websocket.send(**data)
NodeSendUnchecked(n, d) ==
    /\ n \in Registered
    /\ session[n] = "Connected" => Cardinality(sent) < MaxFrames
    /\ WebSocketSendAnyState(n, d)
    /\ UNCHANGED <<players, pobj, task, events, popped>>
NodeSend(n, d) ==
    /\ n \in Registered
    /\ session[n] = "Connected" => Cardinality(sent) < MaxFrames
    /\ WebSocketSend(n, d)
    /\ UNCHANGED <<players, pobj, task, events, popped>>

\* the arguments of the add_node calls: four (host, port) pairs, each with a
\* reconnect policy, and a second call for <<"a", 1>> with another policy
AddArgs ==
    {[hostport |-> <<"a", 1>>, resume_key |-> FALSE, resume_timeout |-> DefaultResumeTimeout,
      reconnect_attempts |-> DefaultReconnectAttempts],
     [hostport |-> <<"a", 1>>, resume_key |-> TRUE, resume_timeout |-> DefaultResumeTimeout,
      reconnect_attempts |-> 1],
     [hostport |-> <<"a", 2>>, resume_key |-> TRUE, resume_timeout |-> 0,
      reconnect_attempts |-> 2],
     [hostport |-> <<"b", 1>>, resume_key |-> FALSE, resume_timeout |-> DefaultResumeTimeout,
      reconnect_attempts |-> 1],
     [hostport |-> <<"b", 2>>, resume_key |-> FALSE, resume_timeout |-> DefaultResumeTimeout,
      reconnect_attempts |-> Unlimited]}

\* a call outside the PlayerManager leaves its state alone
CallStep == UNCHANGED <<failVars, storeVars, penVars, busVars, facadeVars, players, pobj, task, events, sent, popped>>

NextSession ==
    \/ Observe
    \/ Quiet /\ \E a \in AddArgs :
           add_node(MaxSessNodes, a.hostport, "eu", a.resume_key, a.resume_timeout,
                    a.reconnect_attempts)
               /\ CallStep
    \/ Quiet /\ \E n \in NodeIds : WsConnect(n) /\ UNCHANGED <<failVars, storeVars, penVars, busVars, facadeVars>> /\ NodeStep
    \/ Quiet /\ \E n \in NodeIds : WsDisconnect(n) /\ UNCHANGED <<failVars, storeVars, penVars, busVars, facadeVars>> /\ NodeStep
    \/ Quiet /\ \E n \in NodeIds : WsReconnect(n) /\ UNCHANGED <<failVars, storeVars, penVars, busVars, facadeVars>> /\ NodeStep
    \/ Quiet /\ \E n \in NodeIds : WsConnectFails(n) /\ UNCHANGED <<failVars, storeVars, penVars, busVars, facadeVars>> /\ NodeStep
    \/ Quiet /\ \E n \in NodeIds : WsRetryFails(n) /\ UNCHANGED <<failVars, storeVars, penVars, busVars, facadeVars>> /\ NodeStep
    \/ Quiet /\ \E n \in NodeIds : WsGiveUp(n) /\ UNCHANGED <<failVars, storeVars, penVars, busVars, facadeVars>> /\ NodeStep
    \/ Quiet /\ \E n \in NodeIds, d \in Payloads :
           NodeSend(n, d) /\ UNCHANGED <<failVars, storeVars, penVars, nodeVars, sessVars, busVars, facadeVars>>

SpecSession == Init /\ [][NextSession]_vars

\* ----------------------------------------------- event bus specification
\* One event is dispatched at a time; its hooks interleave with each other
\* and with registrations.
BusStep == UNCHANGED <<failVars, storeVars, penVars, nodeVars, sessVars, facadeVars, players, pobj, task, events, sent, popped>>

MaxTasksOfDispatch == 2 * MaxHooks

NextBus ==
    \/ Observe
    \/ Quiet /\ \E h \in Handlers : add_event_hook(h) /\ BusStep
    \/ Quiet /\ \E h \in Handlers : subscribe(h, KindOf(h)) /\ BusStep
    \/ Quiet /\ \E k \in EventKinds : DispatchCall(k) /\ BusStep
    \/ Quiet /\ \E i \in 1..MaxTasksOfDispatch : HandlerStart(i) /\ BusStep
    \/ Quiet /\ \E i \in 1..MaxTasksOfDispatch : HandlerResume(i) /\ BusStep
    \/ Quiet /\ DispatchReturn /\ BusStep

SpecBus == Init /\ [][NextBus]_vars

\* ------------------------------------------------- facade specification
\* NodeManager.add_node(..., search_only=True): a node reserved for lookups
AddSearchNode(limit) ==
    /\ Len(nodes) < limit
    /\ Register(FreshIdentity, "eu", FALSE, DefaultResumeTimeout, DefaultReconnectAttempts, TRUE)

FacadeStep ==
    UNCHANGED <<failVars, storeVars, penVars, nodeVars, sessVars, busVars, players, pobj, task, events, sent, popped>>

DecodeOps == {"decode_track", "decode_tracks"}
RoutePlannerOps ==
    {"routeplanner_status", "routeplanner_free_address", "routeplanner_free_all_failing"}

\* One lookup is in flight at a time, while the sessions of the nodes connect,
\* close, retry and give up.
NextFacade ==
    \/ Observe
    \/ Quiet /\ AddNode(MaxFacadeNodes, PoolRegions)
             /\ UNCHANGED <<failVars, storeVars, penVars, busVars, facadeVars>> /\ NodeStep
    \/ Quiet /\ AddSearchNode(MaxFacadeNodes)
             /\ UNCHANGED <<failVars, storeVars, penVars, busVars, facadeVars>> /\ NodeStep
    \/ Quiet /\ \E n \in NodeIds : WsConnect(n) /\ UNCHANGED <<failVars, storeVars, penVars, busVars, facadeVars>> /\ NodeStep
    \/ Quiet /\ \E n \in NodeIds : WsDisconnect(n) /\ UNCHANGED <<failVars, storeVars, penVars, busVars, facadeVars>> /\ NodeStep
    \/ Quiet /\ \E n \in NodeIds : WsReconnect(n) /\ UNCHANGED <<failVars, storeVars, penVars, busVars, facadeVars>> /\ NodeStep
    \/ Quiet /\ \E n \in NodeIds : WsConnectFails(n) /\ UNCHANGED <<failVars, storeVars, penVars, busVars, facadeVars>> /\ NodeStep
    \/ Quiet /\ \E n \in NodeIds : WsRetryFails(n) /\ UNCHANGED <<failVars, storeVars, penVars, busVars, facadeVars>> /\ NodeStep
    \/ Quiet /\ \E n \in NodeIds : WsGiveUp(n) /\ UNCHANGED <<failVars, storeVars, penVars, busVars, facadeVars>> /\ NodeStep
    \/ Quiet /\ \E nd \in {None} \cup NodeIds, so \in BOOLEAN, first \in BOOLEAN :
           GetTracksCall(nd, so, first) /\ FacadeStep
    \/ Quiet /\ \E op \in DecodeOps, nd \in {None} \cup NodeIds : DecodeCall(op, nd) /\ FacadeStep
    \/ Quiet /\ \E op \in RoutePlannerOps, nd \in NodeIds : RoutePlannerCall(op, nd) /\ FacadeStep
    \/ Quiet /\ \E status \in Statuses, body \in Bodies : RestResponse(status, body) /\ FacadeStep
    \/ Quiet /\ RestTimeout /\ FacadeStep

SpecFacade == Init /\ [][NextFacade]_vars

\* ----------------------------------------------- failover specification
\* A pool of general and search-only nodes whose sessions are not resumed,
\* the creates that place Players on it, and the loss of a node.

\* what a PlayerManager object has: the attributes __init__ sets and the
\* methods of the class, which defines no __getattr__; the method `players`
\* is hidden by the attribute of that name
PlayerManagerAttrs ==
    {"client", "players", "default_player_class", "__len__", "__iter__", "destroy",
     "find_all", "connected_players", "playing_players", "not_playing_players",
     "paused_players", "empty_players", "remove", "get", "create",
     "save_all_players", "restore_player_states"}

\* the Players of the registry
RegisteredPlayers == {players[g] : g \in Guilds} \ {None}

\* Node.players: [p for p in self._manager.client.player_manager.values() if p.node == self]
NodePlayers(n) ==
    IF "values" \notin PlayerManagerAttrs
    THEN [raised |-> "AttributeError", players |-> {}]
    ELSE [raised |-> "none", players |-> {p \in RegisteredPlayers : pobj[p].node = n}]

NodeLostResult(n, ret) == [op |-> "node_lost", node |-> n, ret |-> ret]

\* The session of node n has given up and the PlayerManager is told, once:
\* the Players of the node are taken from Node.players; each is rebound to the
\* best node of the lost node's region, or removed when no node is available.
NodeLost(n) ==
    /\ n \in Registered
    /\ Terminal(n)
    /\ n \notin notified
    /\ notified' = notified \cup {n}
    /\ UNCHANGED removed
    /\ LET bound == NodePlayers(n)
           best == find_best_node(region[n])
       IN IF bound.raised # "none"
          THEN /\ result' = NodeLostResult(n, bound.raised)
               /\ UNCHANGED <<players, pobj>>
          ELSE /\ result' = NodeLostResult(n, "None")
               /\ IF best # None
                  THEN /\ pobj' = [p \in DOMAIN pobj |->
                                      IF p \in bound.players
                                      THEN [pobj[p] EXCEPT !.node = best]
                                      ELSE pobj[p]]
                       /\ players' = players
                  ELSE /\ players' = [g \in Guilds |->
                                         IF players[g] \in bound.players
                                         THEN None ELSE players[g]]
                       /\ pobj' = pobj
    /\ UNCHANGED <<task, events, sent, popped>>
    /\ UNCHANGED <<nodeVars, sessVars, penVars, busVars, facadeVars, storeVars>>

\* the creates of this specification are called one after the other
Caller == 1

PoolStep == UNCHANGED <<failVars, storeVars, penVars, busVars, facadeVars>> /\ NodeStep
PlayerStep == UNCHANGED <<failVars, storeVars, penVars, nodeVars, sessVars, busVars, facadeVars>>

NextFailover ==
    \/ Observe
    \/ Quiet /\ AddNode(MaxFailNodes, PoolRegions) /\ PoolStep
    \/ Quiet /\ AddSearchNode(MaxFailNodes) /\ PoolStep
    \/ Quiet /\ \E n \in NodeIds : WsConnect(n) /\ PoolStep
    \/ Quiet /\ \E n \in NodeIds : WsDisconnect(n) /\ PoolStep
    \/ Quiet /\ \E n \in NodeIds : WsReconnect(n) /\ PoolStep
    \/ Quiet /\ \E n \in NodeIds : WsRetryFails(n) /\ PoolStep
    \/ Quiet /\ \E n \in NodeIds : WsGiveUp(n) /\ PoolStep
    \/ Quiet /\ \E n \in NodeIds : NodeLost(n)
    \/ Quiet /\ \E g \in Guilds, ch \in Channels, a \in CreateArgs :
           CreateCall(Caller, g, ch, a.endpoint, a.node) /\ PlayerStep
    \/ Quiet /\ CreateMovedExisting(Caller) /\ PlayerStep
    \/ Quiet /\ CreateConnected(Caller) /\ PlayerStep
    \/ Quiet /\ CreateMoved(Caller) /\ PlayerStep
    \/ Quiet /\ CreateDispatched(Caller) /\ PlayerStep

SpecFailover == Init /\ [][NextFailover]_vars

\* ------------------------------------------------ removal specification
\* Nodes are registered and taken out again while Players are created on
\* them and destroyed.

\* NodeManager.remove_node: the node leaves the registry and its session is
\* closed, which ends its reconnect loop; a Player that was bound to the node
\* is left without a node
RemoveNodeLeavesSession(n) ==
    /\ n \in Registered
    /\ nodes' = SelectSeq(nodes, LAMBDA m : m # n)
    /\ removed' = removed \cup {n}
    /\ pobj' = [p \in DOMAIN pobj |->
                   IF pobj[p].node = n THEN [pobj[p] EXCEPT !.node = None] ELSE pobj[p]]
    /\ result' = NoResult
    /\ UNCHANGED <<region, stats, sessVars, connected, notified>>
    /\ UNCHANGED <<players, task, events, sent, popped>>
RemoveNode(n) ==
    /\ n \in Registered
    /\ nodes' = SelectSeq(nodes, LAMBDA m : m # n)
    /\ removed' = removed \cup {n}
    /\ session' = [session EXCEPT ![n] = "Closed"]
    /\ connected' = [connected EXCEPT ![n] = FALSE]
    /\ pobj' = [p \in DOMAIN pobj |->
                   IF pobj[p].node = n THEN [pobj[p] EXCEPT !.node = None] ELSE pobj[p]]
    /\ result' = NoResult
    /\ UNCHANGED <<region, stats, hostport, resume_key, resume_timeout, search_only,
                   reconnect_attempts, attempts, failures, notified>>
    /\ UNCHANGED <<players, task, events, sent, popped>>

NextRemoval ==
    \/ Observe
    \/ Quiet /\ AddNode(MaxRemNodes - Cardinality(removed), PoolRegions) /\ PoolStep
    \/ Quiet /\ \E n \in NodeIds : WsConnect(n) /\ PoolStep
    \/ Quiet /\ \E n \in NodeIds : WsDisconnect(n) /\ PoolStep
    \/ Quiet /\ \E n \in NodeIds : WsReconnect(n) /\ PoolStep
    \/ Quiet /\ \E n \in NodeIds : WsRetryFails(n) /\ PoolStep
    \/ Quiet /\ \E n \in NodeIds : RemoveNode(n)
                 /\ UNCHANGED <<penVars, busVars, facadeVars, storeVars>>
    \/ Quiet /\ \E g \in Guilds, ch \in Channels, a \in CreateArgs :
           CreateCall(Caller, g, ch, a.endpoint, a.node) /\ PlayerStep
    \/ Quiet /\ CreateConnected(Caller) /\ PlayerStep
    \/ Quiet /\ CreateMoved(Caller) /\ PlayerStep
    \/ Quiet /\ CreateDispatched(Caller) /\ PlayerStep
    \/ Quiet /\ \E g \in Guilds : DestroyCall(Caller, g) /\ PlayerStep
    \/ Quiet /\ DestroySent(Caller) /\ PlayerStep

SpecRemoval == Init /\ [][NextRemoval]_vars

\* -------------------------------------------------- query specification
QueryStep ==
    UNCHANGED <<failVars, penVars, nodeVars, sessVars, busVars, facadeVars, players, pobj,
                task, events, sent, popped>>

NextQuery ==
    \/ Observe
    \/ Quiet /\ \E q \in Strings : FromQuery([cls |-> "str", val |-> q]) /\ QueryStep
    \/ Quiet /\ query # NoQuery /\ FromQuery([cls |-> "Query", val |-> query]) /\ QueryStep
    \/ Quiet /\ QueryString /\ QueryStep

SpecQuery == Init /\ [][NextQuery]_vars

\* -------------------------------------------------- cache specification
\* the database is opened with the rows of earlier runs
OpenTable(T) ==
    /\ now = 0
    /\ table = {}
    /\ T # {}
    /\ \A e, f \in T : e.identifier = f.identifier => e = f
    /\ table' = T
    /\ result' = NoResult
    /\ UNCHANGED <<query, now>>

\* d days pass
Tick(d) ==
    /\ now + d <= MaxNow
    /\ now' = now + d
    /\ result' = NoResult
    /\ UNCHANGED <<query, table>>

NextCache ==
    \/ Observe
    \/ Quiet /\ \E T \in SUBSET StoredRows : OpenTable(T) /\ QueryStep
    \/ Quiet /\ \E d \in {1, MaxAge - 1} : Tick(d) /\ QueryStep
    \/ Quiet /\ \E q \in CacheQueries : get_query(q) /\ QueryStep
    \/ Quiet /\ \E q \in CacheQueries, res \in LoadResults : add_query(q, res) /\ QueryStep
    \/ Quiet /\ delete_old /\ QueryStep

SpecCache == Init /\ [][NextCache]_vars

\* ------------------------------------------------- stream specification
\* One node's inbound stream of "stats" messages and its `stats` attribute.
\* The reports differ from each other in every field.
StreamReports ==
    {[playingPlayers |-> 1, systemLoad |-> 0, frameStats |-> {}],
     [playingPlayers |-> 2, systemLoad |-> 1,
      frameStats |-> {[nulled |-> 0, deficit |-> 12]}],
     [playingPlayers |-> 0, systemLoad |-> 2,
      frameStats |-> {[nulled |-> 6, deficit |-> -1]}]}

\* what a caller can assign to Node.stats: a Stats object, the raw payload
\* of a report, or None
Assignable ==
    [cls : {"Stats"}, obj : {Stats(d) : d \in StreamReports}]
        \cup [cls : {"dict"}, obj : StreamReports]
        \cup [cls : {"NoneType"}, obj : {None}]

\* isinstance(value, Stats)
IsStats(value) == value.cls = "Stats"

\* Node.stats setter: the new self._stats, and what the assignment raised
StatsSetterUnchecked(cur, value) == [stats |-> {value.obj}, raised |-> "none"]
StatsSetter(cur, value) ==
    IF ~IsStats(value)
    THEN [stats |-> cur, raised |-> "TypeError"]
    ELSE [stats |-> {value.obj}, raised |-> "none"]

StreamResult(op, value, raised) == [op |-> op, value |-> value, ret |-> raised]

\* a "stats" message arrives on the websocket
StatsArrive ==
    /\ Len(inbox) < MaxStream
    /\ \E d \in StreamReports : inbox' = Append(inbox, d)
    /\ result' = NoResult
    /\ UNCHANGED <<pdata, pstats, handled>>

\* the listener takes the next message, in arrival order: node.stats = Stats(node, data)
StatsProcess ==
    /\ handled < Len(inbox)
    /\ LET d == inbox[handled + 1]
           set == StatsSetter(pstats, [cls |-> "Stats", obj |-> Stats(d)])
       IN /\ pdata' = d
          /\ pstats' = set.stats
          /\ result' = NoResult
    /\ handled' = handled + 1
    /\ UNCHANGED inbox

\* node.stats = value, from any caller
StatsAssign(value) ==
    /\ LET set == StatsSetter(pstats, value)
       IN /\ pstats' = set.stats
          /\ result' = StreamResult("stats_setter", value, set.raised)
    /\ UNCHANGED <<pdata, inbox, handled>>

StreamStep ==
    UNCHANGED <<failVars, storeVars, nodeVars, sessVars, busVars, facadeVars, players, pobj, task, events, sent, popped>>

NextStream ==
    \/ Observe
    \/ Quiet /\ StatsArrive /\ StreamStep
    \/ Quiet /\ StatsProcess /\ StreamStep
    \/ Quiet /\ \E value \in Assignable : StatsAssign(value) /\ StreamStep

SpecStream == Init /\ [][NextStream]_vars

\* ------------------------------------------------------------------ claims
\* what a node reports as its load, read from the state alone
StatsTotal(n) == (CHOOSE s \in stats[n] : TRUE).penalty.total
Reachable(n) == n \in Registered /\ connected[n]
Position(n) == CHOOSE i \in 1..Len(nodes) : nodes[i] = n
SeqRange(q) == {q[i] : i \in 1..Len(q)}

\* C1: find_best_node never returns a node whose websocket is not connected,
\* and returns None exactly when no registered node is connected.
C1_BestNodeConnected ==
    \A r \in RegionArgs :
        LET b == find_best_node(r)
        IN /\ b # None => Reachable(b)
           /\ b = None <=> {n \in Registered : connected[n]} = {}

\* a disconnected node registered before a connected one, which is chosen
C1_Witness ==
    \E a, b \in Registered :
        /\ Position(a) < Position(b)
        /\ ~connected[a]
        /\ connected[b]
        /\ find_best_node("none") = b

\* C2: find_best_node returns a candidate of minimal penalty, and among the
\* candidates of minimal penalty the one registered first.
C2_BestNodeMinimal ==
    \A r \in RegionArgs :
        LET b == find_best_node(r)
            load(n) == IF stats[n] = {} THEN Sentinel ELSE StatsTotal(n)
        IN b # None =>
               /\ b \in SeqRange(Candidates(r))
               /\ \A c \in SeqRange(Candidates(r)) :
                      /\ load(b) <= load(c)
                      /\ load(b) = load(c) => Position(b) <= Position(c)

\* A = 5.0, B = 2.0, C = 2.0, registered in that order: B is chosen
C2_Witness ==
    /\ Len(nodes) = 3
    /\ \A n \in Registered : connected[n] /\ stats[n] # {}
    /\ StatsTotal(nodes[1]) = 5 * Scale
    /\ StatsTotal(nodes[2]) = 2 * Scale
    /\ StatsTotal(nodes[3]) = 2 * Scale
    /\ find_best_node("none") = nodes[2]

\* C9: a node's penalty is the sentinel when it is not connected or has no
\* stats and its stats' total otherwise, the total being below the sentinel;
\* so find_best_node returns no node without stats while a candidate has stats.
C9_PenaltySentinel ==
    /\ \A n \in Registered :
           /\ (~connected[n] \/ stats[n] = {}) => penalty(n) = Sentinel
           /\ (connected[n] /\ stats[n] # {}) =>
                  penalty(n) = StatsTotal(n) /\ penalty(n) < Sentinel
    /\ \A r \in RegionArgs :
           (\E c \in SeqRange(Candidates(r)) : Reachable(c) /\ stats[c] # {}) =>
               LET b == find_best_node(r)
               IN Reachable(b) /\ stats[b] # {}

\* a connected node without stats registered first, a disconnected node with
\* stats, and a connected node with stats registered last, which is chosen
C9_Witness ==
    /\ Len(nodes) = 3
    /\ connected[nodes[1]] /\ stats[nodes[1]] = {}
    /\ ~connected[nodes[2]] /\ stats[nodes[2]] # {}
    /\ connected[nodes[3]] /\ stats[nodes[3]] # {}
    /\ find_best_node("none") = nodes[3]
    /\ penalty(nodes[2]) = Sentinel

\* C10 as claimed: each frame penalty is zero exactly when (if and only if)
\* its own counter is -1, and with both counters -1 the total is
\* playing_players + cpu_penalty.
C10_AsClaimed ==
    \A s \in pstats :
        /\ s.penalty.null_frame_penalty = 0 <=> s.frames_nulled = -1
        /\ s.penalty.deficit_frame_penalty = 0 <=> s.frames_deficit = -1
        /\ (s.frames_nulled = -1 /\ s.frames_deficit = -1) =>
               s.penalty.total = s.playing_players * Scale + s.penalty.cpu_penalty

\* C10, amended: each frame penalty is zero when its own counter is -1 or 0
\* and positive for a positive counter, whatever the other counter is; with
\* both counters -1 the total is playing_players + cpu_penalty.
C10_FramePenalties ==
    \A s \in pstats :
        /\ s.frames_nulled \in {-1, 0} => s.penalty.null_frame_penalty = 0
        /\ s.frames_nulled > 0 => s.penalty.null_frame_penalty > 0
        /\ s.frames_deficit \in {-1, 0} => s.penalty.deficit_frame_penalty = 0
        /\ s.frames_deficit > 0 => s.penalty.deficit_frame_penalty > 0
        /\ (s.frames_nulled = -1 /\ s.frames_deficit = -1) =>
               /\ s.penalty.total = s.playing_players * Scale + s.penalty.cpu_penalty
               /\ s.penalty.cpu_penalty =
                      PowScaled(105, s.system_load) * 10 - 10 * Scale

\* a report without frame statistics, of a busy node with players
C10_Witness ==
    \E s \in pstats :
        /\ pdata.frameStats = {}
        /\ s.frames_nulled = -1 /\ s.frames_deficit = -1
        /\ s.playing_players > 0 /\ s.system_load > 0
        /\ s.penalty.total > s.playing_players * Scale

\* the step is a call of `op` for guild g that returns or raises without
\* suspending (a call that resumes changes `task`)
SyncCall(op, g) == task' = task /\ result'.op = op /\ result'.guild = g
\* the step is a call by t that suspends at position pc
Suspends(t, pc) == task[t].pc = "idle" /\ task'[t].pc = pc
\* everything but the coroutines and the result of the step
World == <<players, pobj, events, sent, popped, nodes, region, connected, stats>>
\* the Players of guild g that were constructed and not taken out of the registry
LivePlayers(g) == {p \in 1..Len(pobj) : pobj[p].guild = g /\ p \notin popped}
DestroyCmd(p) ==
    [node |-> pobj[p].node, op |-> "destroy", guildId |-> pobj[p].guild,
     player |-> p, live |-> TRUE]

\* C3: under every interleaving of create, destroy and remove, a guild has at
\* most one Player that was constructed (voice-connected) and not removed;
\* two overlapping creates of one guild construct one Player.
C3_OnePlayerPerGuild ==
    \A g \in Guilds : Cardinality(LivePlayers(g)) <= 1

\* C4: create for a guild whose Player is already on the requested channel
\* returns that Player at once: no suspension (no move, no connect), no node
\* bound, no event, registry and Players unchanged.
C4_CreateIdempotent ==
    [][\A g \in Guilds, ch \in Channels :
          (players[g] # None /\ pobj[players[g]].channel = ch) =>
              /\ \A t \in Tasks :
                     ~(/\ task[t].pc = "idle"
                       /\ task'[t].pc \in {"c_move_existing", "c_connect"}
                       /\ task'[t].guild = g
                       /\ task'[t].channel = ch)
              /\ (SyncCall("create", g) /\ result'.channel = ch) =>
                     /\ result'.ret = "player"
                     /\ result'.via = "same"
                     /\ result'.player = players[g]
                     /\ UNCHANGED World]_vars

\* a create that found the guild's Player, created and announced by an
\* earlier create, on the requested channel
C4_Witness ==
    /\ result.op = "create" /\ result.via = "same" /\ result.ret = "player"
    /\ players[result.guild] = result.player
    /\ pobj[result.player].channel = result.channel
    /\ [kind |-> "PlayerConnectedEvent", player |-> result.player] \in events
    /\ Cardinality(events) = 1

\* C5: create for a guild without a Player, with no node given and
\* find_best_node giving None, raises NoNodeAvailable: it does not go on to
\* connect, and registry, Players, events and payloads are unchanged.
C5_NoNodeAvailable ==
    [][\A g \in Guilds :
          LET nobest == \E ep \in Endpoints : find_best_node(get_region(ep)) = None
          IN /\ \A t \in Tasks :
                    (Suspends(t, "c_connect") /\ task'[t].guild = g /\ ~task'[t].explicit)
                        => ~(players[g] = None /\ nobest)
             /\ (SyncCall("create", g) /\ players[g] = None /\ nobest) =>
                    /\ result'.ret = "NoNodeAvailable"
                    /\ result'.player = None
                    /\ UNCHANGED World]_vars

\* NoNodeAvailable raised while nodes are registered, none of them connected
C5_Witness ==
    /\ result.op = "create" /\ result.ret = "NoNodeAvailable"
    /\ players[result.guild] = None
    /\ nodes # <<>>
    /\ \A n \in Registered : ~connected[n]

\* C6: destroy for a guild with a Player always takes the Player out of the
\* registry; it writes the destroy payload to the Player's node, and then
\* marks the Player disconnected, exactly when that node is connected at the
\* call; no destroy payload goes to a node that is not connected.
C6_Destroy ==
    [][/\ \A g \in Guilds :
             LET p == players[g]
                 called == \/ SyncCall("destroy", g)
                           \/ \E t \in Tasks : Suspends(t, "d_send") /\ task'[t].guild = g
             IN (p # None /\ called) =>
                    /\ players' = [players EXCEPT ![g] = None]
                    /\ popped' = popped \cup {p}
                    /\ IF connected[pobj[p].node]
                       THEN /\ sent' = sent \cup {DestroyCmd(p)}
                            /\ \E t \in Tasks : Suspends(t, "d_send") /\ task'[t].player = p
                       ELSE /\ sent' = sent
                            /\ pobj' = pobj
                            /\ result'.ret = "None"
       /\ \A t \in Tasks :
              (task[t].pc = "d_send" /\ task'[t].pc = "idle") =>
                  /\ ~pobj'[task[t].player].is_connected
                  /\ result'.op = "destroy" /\ result'.ret = "None"
       /\ \A c \in sent' : c.live
       /\ \A q \in 1..Len(pobj') :
              ~pobj'[q].is_connected => \E c \in sent' : c.player = q]_vars

\* one Player destroyed through its connected node and marked disconnected,
\* another just destroyed while its node was not connected: no payload, not marked
C6_Witness ==
    /\ \E p \in popped :
           /\ ~pobj[p].is_connected
           /\ DestroyCmd(p) \in sent
    /\ result.op = "destroy" /\ result.via = "pop" /\ result.ret = "None"
    /\ result.player \in popped
    /\ pobj[result.player].is_connected
    /\ ~connected[pobj[result.player].node]
    /\ \A c \in sent : c.player # result.player

\* C7: destroy for a guild without a Player returns without raising and
\* changes nothing: no payload, registry and Players unchanged.
C7_DestroyAbsent ==
    [][\A g \in Guilds :
          players[g] = None =>
              /\ \A t \in Tasks : ~(Suspends(t, "d_send") /\ task'[t].guild = g)
              /\ SyncCall("destroy", g) =>
                     /\ result'.ret = "None"
                     /\ result'.via = "absent"
                     /\ UNCHANGED World]_vars

\* destroy of a guild without a Player while another guild has one on a
\* connected node
C7_Witness ==
    /\ result.op = "destroy" /\ result.via = "absent" /\ result.ret = "None"
    /\ players[result.guild] = None
    /\ \E h \in Guilds : players[h] # None /\ connected[pobj[players[h]].node]

\* C8: remove takes the guild's Player, if any, out of the registry and does
\* nothing else: no payload is written, no coroutine is suspended, the other
\* guilds' entries, the Players and the nodes are unchanged.
C8_RemoveLocal ==
    [][\A g \in Guilds :
          SyncCall("remove", g) =>
              /\ players' = [players EXCEPT ![g] = None]
              /\ popped' = IF players[g] = None THEN popped ELSE popped \cup {players[g]}
              /\ result'.ret = "None"
              /\ result'.via = IF players[g] = None THEN "absent" ELSE "pop"
              /\ UNCHANGED <<pobj, events, sent, nodes, region, connected, stats>>]_vars

\* remove of a Player bound to a connected node, while another guild keeps its
\* Player: nothing was written to any node
C8_Witness ==
    /\ result.op = "remove" /\ result.via = "pop"
    /\ players[result.guild] = None
    /\ connected[pobj[result.player].node]
    /\ sent = {}
    /\ \E h \in Guilds : players[h] # None /\ pobj[players[h]].is_connected

\* the frame a payload makes on the transport of a node
Frame(n, d) ==
    [node |-> n, op |-> d.op, guildId |-> d.guildId, player |-> None, live |-> TRUE]

\* C11: a send on a session that is not Connected raises NotConnected and
\* writes nothing; a send on a Connected session returns and writes exactly
\* the payload it was given.
C11_SendContract ==
    [][result'.op = "send" =>
           LET n == result'.node
           IN IF session[n] = "Connected"
              THEN /\ result'.ret = "None"
                   /\ sent' = sent \cup {Frame(n, result'.data)}
              ELSE /\ result'.ret = "NotConnected"
                   /\ sent' = sent]_vars

\* a send was written, and a later one on a session that gave up was refused
C11_Witness ==
    /\ result.op = "send"
    /\ result.ret = "NotConnected"
    /\ session[result.node] = "Disconnected"
    /\ \E f \in sent : f.op \in {"play", "stop"}

\* C12: a session with the cap N makes at most N retries in a row; the
\* node-failure event is emitted after exactly N failed retries, and no retry
\* follows it.
C12_ReconnectBounded ==
    [][\A n \in Registered' :
           LET N == reconnect_attempts'[n]
           IN N # Unlimited =>
                  /\ attempts'[n] <= N
                  /\ n \in Registered /\ failures'[n] # failures[n] =>
                         /\ attempts[n] = N
                         /\ failures'[n] = failures[n] + 1
                         /\ session'[n] = "Disconnected"
                  /\ n \in Registered /\ Terminal(n) =>
                         /\ attempts'[n] = attempts[n]
                         /\ session'[n] = "Disconnected"]_vars

\* the default cap: three retries failed, the session gave up
C12_Witness ==
    \E n \in Registered :
        /\ reconnect_attempts[n] = DefaultReconnectAttempts
        /\ attempts[n] = DefaultReconnectAttempts
        /\ session[n] = "Disconnected"
        /\ failures[n] = 1

\* C14: add_node with a (host, port) that a registered node has raises
\* DuplicateNode and changes neither the registry nor any node's session; no
\* two registered nodes have the same (host, port).
C14_DuplicateNode ==
    [][/\ \A a, b \in Registered' : a # b => hostport'[a] # hostport'[b]
       /\ (/\ result'.op = "add_node"
           /\ \E n \in Registered : hostport[n] = result'.hostport)
              => /\ result'.ret = "DuplicateNode"
                 /\ nodes' = nodes
                 /\ connected' = connected
                 /\ stats' = stats
                 /\ sessVars' = sessVars]_vars

\* the duplicate asks for another reconnect policy than the node has, while
\* that node is connected next to a second one
C14_Witness ==
    /\ result.op = "add_node"
    /\ result.ret = "DuplicateNode"
    /\ Len(nodes) = 2
    /\ \E n \in Registered :
           /\ hostport[n] = result.hostport
           /\ session[n] = "Connected"
           /\ reconnect_attempts[n] # result.reconnect_attempts

\* membership in a list of hooks
Hooked(h, q) == \E i \in 1..Len(q) : q[i] = h

\* C15: when _dispatch_event returns, every hook has been invoked once for
\* each time it stood in the generic list or in the list of the event's kind
\* when the dispatch was called (so a hook registered only for another kind
\* was not invoked), whatever the hooks did; it returns None, never raises.
C15_PublishDelivers ==
    [][result'.op = "publish" =>
           /\ result'.ret = "None"
           /\ \A h \in Handlers :
                  calls'[h] = Count(h, snapshot'.generic) + Count(h, snapshot'.targeted)]_vars

\* a dispatch has returned in which one hook raised and another returned,
\* while a third registration, for the other kind, was left alone
C15_Witness ==
    /\ result.op = "publish"
    /\ \E i, j \in 1..Len(dispatch.tasks) :
           /\ dispatch.tasks[i].state = "caught"
           /\ dispatch.tasks[j].state = "returned"
           /\ calls[dispatch.tasks[j].hook] = 1
    /\ \E k \in EventKinds : k # dispatch.kind /\ hooks[k] # <<>>

\* C16: when _dispatch_event returns, every wrapper task it created has
\* ended.
C16_PublishWaits ==
    [][result'.op = "publish" =>
           \A i \in 1..Len(dispatch'.tasks) : dispatch'.tasks[i].state \in Settled]_vars

\* the dispatch is still waiting although one hook has ended, because another
\* one is suspended
C16_Witness ==
    /\ dispatch.pc = "wait"
    /\ \E i, j \in 1..Len(dispatch.tasks) :
           /\ dispatch.tasks[i].state = "suspended"
           /\ dispatch.tasks[j].state \in Settled

\* C17: no list of hooks holds a hook twice; registering a hook for a kind it
\* is registered for changes nothing; and a dispatch invokes a hook that is
\* registered for one of the two kinds it serves exactly once.
C17_SubscribeIdempotent ==
    [][/\ \A k \in HookKinds, h \in Handlers : Count(h, hooks'[k]) <= 1
       /\ (/\ result'.op = "subscribe"
           /\ Hooked(result'.hook, hooks[result'.kind])) => hooks' = hooks
       /\ result'.op = "publish" =>
              \A h \in Handlers :
                  Hooked(h, snapshot'.generic) # Hooked(h, snapshot'.targeted)
                      => calls'[h] = 1]_vars

\* add_event_hook was called again for the second of two generic hooks
C17_Witness ==
    /\ result.op = "subscribe"
    /\ result.kind = "Generic"
    /\ result.known
    /\ Len(hooks["Generic"]) = 2
    /\ hooks["Generic"][2] = result.hook

LookupOps == {"get_tracks", "decode_track", "decode_tracks"}
Connected(n) == n \in Registered /\ connected[n]

\* C13: a session enters the terminal Disconnected state only with the
\* emission of one node-failure event, and stays there: no attempt, no
\* connection and no further event follows; the step that gives up returns or
\* raises nothing to any caller and leaves the request in flight as it is.
C13_Exhaustion ==
    [][\A n \in Registered :
           /\ failures'[n] # failures[n] =>
                  /\ failures[n] = 0 /\ failures'[n] = 1
                  /\ session[n] \in {"Resuming", "Reconnecting"}
                  /\ session'[n] = "Disconnected"
                  /\ result' = NoResult
                  /\ req' = req
                  /\ task' = task
           /\ (session[n] \in {"Resuming", "Reconnecting"} /\ session'[n] = "Disconnected")
                  => failures'[n] = 1
           /\ Terminal(n) =>
                  /\ session'[n] = "Disconnected"
                  /\ attempts'[n] = attempts[n]
                  /\ failures'[n] = failures[n]
                  /\ ~connected'[n]]_vars

\* a lookup that chose the node while it was connected is still in flight
\* after the node's session gave up
C13_Witness ==
    /\ req.pc = "http"
    /\ req.op = "get_tracks"
    /\ ~req.explicit
    /\ session[req.node] = "Disconnected"
    /\ failures[req.node] = 1

\* C18: a get_tracks(search_only_nodes=True) that finds no available
\* search-only node sets the warned flag, which is never reset, and the
\* warning has then been logged exactly once, however many such calls were
\* made; with no node passed and a node available, its request goes to an
\* available node that is not search-only.
C18_FallbackWarnsOnce ==
    [][LET called == /\ req.pc = "idle"
                     /\ \/ /\ req'.pc = "http"
                           /\ req'.op = "get_tracks"
                           /\ req'.search_only_nodes
                        \/ /\ result'.op = "get_tracks"
                           /\ result'.search_only_nodes
           fallback == called /\ \A n \in Registered : ~(connected[n] /\ search_only[n])
       IN /\ warned => warned'
          /\ warnings' # warnings => fallback
          /\ fallback =>
                 /\ warned'
                 /\ warnings' = 1
                 /\ (\E n \in Registered : connected[n]) =>
                        /\ req'.pc = "http"
                        /\ ~req'.explicit =>
                               /\ Connected(req'.node)
                               /\ ~search_only[req'.node]]_vars

\* the second such call, with two general nodes available
C18_Witness ==
    /\ fallbacks = 2
    /\ warnings = 1
    /\ req.pc = "http"
    /\ req.op = "get_tracks"
    /\ req.search_only_nodes
    /\ ~req.explicit
    /\ Cardinality({n \in Registered : connected[n] /\ ~search_only[n]}) = 2

\* C19: a get_tracks, decode_track or decode_tracks called while no node is
\* available raises NoNodeAvailable and issues no request; called while a
\* node is available and with no node passed, its request goes to an
\* available node, a search-only one when that was asked for and one is
\* available.
C19_NoNodeAvailable ==
    [][LET called == /\ req.pc = "idle"
                     /\ \/ req'.pc = "http" /\ req'.op \in LookupOps
                        \/ result'.op \in LookupOps
           searchers == {n \in Registered : connected[n] /\ search_only[n]}
       IN called =>
              IF \A n \in Registered : ~connected[n]
              THEN /\ result'.op \in LookupOps
                   /\ result'.ret = "NoNodeAvailable"
                   /\ req' = req
              ELSE /\ req'.pc = "http"
                   /\ ~req'.explicit =>
                          /\ Connected(req'.node)
                          /\ req'.search_only_nodes /\ searchers # {}
                                 => req'.node \in searchers]_vars

FreeOps == {"routeplanner_free_address", "routeplanner_free_all_failing"}

C27_UnlimitedRetries ==
    [][\A n \in Registered :
           reconnect_attempts[n] = Unlimited =>
               /\ failures'[n] = 0
               /\ session[n] \in Retrying => session'[n] \in Retrying \cup {"Connected"}
               /\ session'[n] \in Retrying =>
                      \/ session'[n] = "Connecting"
                      \/ WsReconnectAttempts(n) = Unlimited
                      \/ attempts'[n] < WsReconnectAttempts(n)
               /\ (~connected[n] /\ connected'[n]) =>
                      /\ session[n] \in Retrying
                      /\ session'[n] = "Connected"]_vars

\* more failed retries in a row than any finite cap in use allows, and the
\* session is still retrying
C27_Witness ==
    \E n \in Registered :
        /\ reconnect_attempts[n] = Unlimited
        /\ session[n] = "Reconnecting"
        /\ attempts[n] = MaxRetries
        /\ attempts[n] > DefaultReconnectAttempts

\* C28: a Connected session has the counter at zero, so an outage starts
\* with the counter at zero whatever earlier outages used; the counter never
\* exceeds the cap, and the session gives up only with the counter at the cap.
C28_CounterReset ==
    [][\A n \in Registered :
           /\ session'[n] = "Connected" => attempts'[n] = 0
           /\ (session[n] = "Connected" /\ session'[n] # "Connected") => attempts'[n] = 0
           /\ reconnect_attempts[n] # Unlimited =>
                  /\ attempts'[n] <= reconnect_attempts[n]
                  /\ failures'[n] # failures[n] => attempts[n] = reconnect_attempts[n]]_vars

\* a session that was Connected (it is resuming) has used the whole cap in
\* this outage, while a session that was never Connected has used its own
C28_Witness ==
    \E m, n \in Registered :
        /\ session[m] = "Resuming"
        /\ attempts[m] = reconnect_attempts[m]
        /\ session[n] = "Reconnecting"
        /\ attempts[n] = reconnect_attempts[n]
        /\ attempts[n] >= 1

\* C29: a closure of a Connected session leads to Resuming exactly when a
\* resume key is set and the resume timeout has not elapsed, and to
\* Disconnected otherwise; a session becomes Connected only from Connecting,
\* Resuming or Reconnecting.
C29_Closure ==
    [][\A n \in Registered :
           /\ (session[n] = "Connected" /\ session'[n] # "Connected") =>
                  /\ session'[n] \in {"Resuming", "Disconnected"}
                  /\ session'[n] = "Resuming" <=> (resume_key[n] /\ resume_timeout[n] > 0)
                  /\ ~connected'[n]
           /\ (session[n] # "Connected" /\ session'[n] = "Connected") =>
                  session[n] \in Retrying]_vars

\* one session resuming; another, with a resume key and the timeout elapsed,
\* Disconnected after a closure
C29_Witness ==
    \E m, n \in Registered :
        /\ session[m] = "Resuming"
        /\ session[n] = "Disconnected"
        /\ failures[n] = 0
        /\ resume_key[n]
        /\ resume_timeout[n] = 0

\* C24: find_best_node with a region returns a node of that region when an
\* available node has it, whatever the penalties of the others; when none
\* has it, it returns a node of minimal penalty among all available nodes,
\* and None only when no node is available.
C24_RegionFirst ==
    \A r \in Regions :
        LET avail == {n \in Registered : connected[n]}
            regional == {n \in avail : region[n] = r}
            load(n) == IF stats[n] = {} THEN Sentinel ELSE StatsTotal(n)
            b == find_best_node(r)
        IN /\ regional # {} =>
                  /\ b \in regional
                  /\ \A c \in regional : load(b) <= load(c)
           /\ (regional = {} /\ avail # {}) =>
                  /\ b \in avail
                  /\ \A c \in avail : load(b) <= load(c)
           /\ avail = {} => b = None

\* "us" has a node, which is not connected: the better of two available "eu"
\* nodes, registered last, is returned for "us"
C24_Witness ==
    /\ Len(nodes) = 3
    /\ region[nodes[1]] = "us" /\ ~connected[nodes[1]] /\ stats[nodes[1]] # {}
    /\ region[nodes[2]] = "eu" /\ connected[nodes[2]] /\ stats[nodes[2]] # {}
    /\ region[nodes[3]] = "eu" /\ connected[nodes[3]] /\ stats[nodes[3]] # {}
    /\ StatsTotal(nodes[1]) < StatsTotal(nodes[2])
    /\ StatsTotal(nodes[3]) < StatsTotal(nodes[2])
    /\ find_best_node("us") = nodes[3]

PlayerConnected(p) == [kind |-> "PlayerConnectedEvent", player |-> p]

\* C25: create for a guild whose Player is on another channel than the
\* requested one suspends in that Player's move_to and then returns that
\* Player, moved: it selects no node and constructs no Player, and neither
\* step changes the registry, the events, the payloads or the Player's node.
C25_CreateMovesExisting ==
    [][/\ \A g \in Guilds, ch \in Channels :
             (players[g] # None /\ pobj[players[g]].channel # ch) =>
                 /\ ~(SyncCall("create", g) /\ result'.channel = ch)
                 /\ \A t \in Tasks :
                        (/\ task[t].pc = "idle" /\ task'[t].pc # "idle"
                         /\ task'[t].guild = g /\ task'[t].channel = ch) =>
                            /\ task'[t].pc = "c_move_existing"
                            /\ task'[t].player = players[g]
                            /\ task'[t].node = None
                            /\ UNCHANGED World
       /\ \A t \in Tasks :
              (task[t].pc = "c_move_existing" /\ task'[t].pc # "c_move_existing") =>
                  LET p == task[t].player
                  IN /\ result' = Outcome("create", task[t].guild, task[t].channel,
                                          "move", "player", p)
                     /\ pobj' = [pobj EXCEPT ![p].channel = task[t].channel]
                     /\ pobj'[p].node = pobj[p].node
                     /\ UNCHANGED <<players, events, sent, popped, nodes, region,
                                    connected, stats>>]_vars

\* the guild's only Player, announced once when it was created, was moved to
\* the other channel by a second create, which returned it
C25_Witness ==
    /\ result.op = "create" /\ result.via = "move" /\ result.ret = "player"
    /\ players[result.guild] = result.player
    /\ pobj[result.player].channel = result.channel
    /\ Len(pobj) = 1
    /\ events = {PlayerConnected(result.player)}

\* C26: a create that finds no Player for the guild and a node to use goes
\* through four steps: it takes the node passed, or else what find_best_node
\* gives for the endpoint's region; the voice connection constructs one Player
\* bound to that node; one PlayerConnected event is emitted for it; the
\* Player is registered under the guild id and returned.
C26_CreateNew ==
    [][\A t \in Tasks :
           /\ Suspends(t, "c_connect") =>
                  /\ players[task'[t].guild] = None
                  /\ IF task'[t].explicit
                     THEN task'[t].node \in Registered
                     ELSE /\ task'[t].node # None
                          /\ \E ep \in Endpoints :
                                 task'[t].node = find_best_node(get_region(ep))
                  /\ UNCHANGED World
           /\ (task[t].pc = "c_connect" /\ task'[t].pc = "c_move") =>
                  /\ pobj' = Append(pobj, [guild |-> task[t].guild, node |-> task[t].node,
                                           channel |-> task[t].channel,
                                           is_connected |-> TRUE])
                  /\ task'[t].player = Len(pobj')
                  /\ UNCHANGED <<players, events, sent, popped>>
           /\ (task[t].pc = "c_move" /\ task'[t].pc # "c_move") =>
                  /\ task'[t].pc = "c_dispatch"
                  /\ PlayerConnected(task[t].player) \notin events
                  /\ events' = events \cup {PlayerConnected(task[t].player)}
                  /\ UNCHANGED <<players, pobj, sent, popped>>
           /\ (task[t].pc = "c_dispatch" /\ task'[t].pc # "c_dispatch") =>
                  /\ PlayerConnected(task[t].player) \in events
                  /\ players' = [players EXCEPT ![task[t].guild] = task[t].player]
                  /\ result'.op = "create" /\ result'.ret = "player"
                  /\ result'.player = task[t].player
                  /\ pobj[task[t].player].guild = task[t].guild
                  /\ UNCHANGED <<pobj, events, sent, popped>>]_vars

\* two creates returned new Players: one on the node passed to it, which is
\* not connected, the other on the node find_best_node gave
C26_Witness ==
    /\ result.op = "create" /\ result.via = "new" /\ result.ret = "player"
    /\ players[result.guild] = result.player
    /\ Len(pobj) = 2
    /\ Cardinality(events) = 2
    /\ \E p, q \in 1..Len(pobj) :
           /\ p # q
           /\ players[pobj[p].guild] = p /\ players[pobj[q].guild] = q
           /\ ~connected[pobj[p].node]
           /\ connected[pobj[q].node]
           /\ session[pobj[p].node] = "Connecting"

\* the fields of a report, as the protocol names them
ReportFields(d) ==
    [playing_players |-> d.playingPlayers,
     system_load |-> d.systemLoad,
     frames_nulled |-> IF d.frameStats = {} THEN -1
                       ELSE (CHOOSE f \in d.frameStats : TRUE).nulled,
     frames_deficit |-> IF d.frameStats = {} THEN -1
                        ELSE (CHOOSE f \in d.frameStats : TRUE).deficit]

IsSnapshotOf(s, d) ==
    /\ s.playing_players = ReportFields(d).playing_players
    /\ s.system_load = ReportFields(d).system_load
    /\ s.frames_nulled = ReportFields(d).frames_nulled
    /\ s.frames_deficit = ReportFields(d).frames_deficit
    /\ s.penalty = Penalty(ReportFields(d))

\* C30: the listener processes the stats reports one at a time in arrival
\* order, and each one replaces the snapshot by the Stats of that report
\* alone, penalty included; an arrival changes nothing; assigning a value that
\* is not a Stats object raises TypeError and leaves the snapshot unchanged.
C30_StatsInOrder ==
    [][/\ handled' # handled =>
              /\ handled' = handled + 1
              /\ inbox' = inbox
              /\ Cardinality(pstats') = 1
              /\ \A s \in pstats' : IsSnapshotOf(s, inbox[handled'])
       /\ inbox' # inbox =>
              /\ pstats' = pstats
              /\ handled' = handled
              /\ \E d \in StreamReports : inbox' = Append(inbox, d)
       /\ (result'.op = "stats_setter" /\ result'.value.cls # "Stats") =>
              /\ result'.ret = "TypeError"
              /\ pstats' = pstats
       /\ (result'.op = "stats_setter" /\ result'.value.cls = "Stats") =>
              /\ result'.ret = "none"
              /\ pstats' = {result'.value.obj}
       /\ pstats' # pstats =>
              \/ handled' # handled
              \/ result'.op = "stats_setter" /\ result'.value.cls = "Stats"]_vars

\* three different reports arrived and were processed, the snapshot is that
\* of the third, and the assignment of a raw payload has just been rejected
C30_Witness ==
    /\ Len(inbox) = 3
    /\ handled = 3
    /\ inbox[1] # inbox[2] /\ inbox[2] # inbox[3] /\ inbox[1] # inbox[3]
    /\ \A s \in pstats : IsSnapshotOf(s, inbox[3]) /\ ~IsSnapshotOf(s, inbox[2])
    /\ pstats # {}
    /\ result.op = "stats_setter" /\ result.value.cls = "dict"
    /\ result.ret = "TypeError"

C21_NodeLossRehomes ==
    [][\A n \in NodeIds :
           (n \notin notified /\ n \in notified') =>
               \A g \in Guilds :
                   (players[g] # None /\ pobj[players[g]].node = n) =>
                       IF players'[g] = None THEN TRUE
                       ELSE /\ pobj'[players'[g]].node # n
                            /\ connected'[pobj'[players'[g]].node]]_vars

\* a node's loss has been handled while another node was available, and a
\* Player of the registry is still bound to the lost node
C21_StillBound ==
    \E n \in notified, m \in Registered :
        /\ connected[m] /\ ~search_only[m]
        /\ \E p \in RegisteredPlayers : pobj[p].node = n

\* C33: the route-planner operations request GET /routeplanner/status,
\* POST /routeplanner/free/address with the body {address} and
\* POST /routeplanner/free/all of the node given, with the node's password as
\* the Authorization header, and the two free operations return True exactly
\* when the answer is 204.
C33_RoutePlannerRequests ==
    [][/\ (req'.pc = "http" /\ req'.op \in RoutePlannerOps) =>
              /\ req'.authorization = Password(req'.node)
              /\ req'.op = "routeplanner_status" =>
                     /\ req'.method = "GET" /\ req'.path = "/routeplanner/status"
                     /\ req'.json = "none"
              /\ req'.op = "routeplanner_free_address" =>
                     /\ req'.method = "POST" /\ req'.path = "/routeplanner/free/address"
                     /\ req'.json = "address"
              /\ req'.op = "routeplanner_free_all_failing" =>
                     /\ req'.method = "POST" /\ req'.path = "/routeplanner/free/all"
                     /\ req'.json = "none"
       /\ (req.pc = "http" /\ req.op \in FreeOps /\ result'.op = req.op
              /\ result'.status # 0) =>
              result'.ret = (IF result'.status = 204 THEN "True" ELSE "False")]_vars

\* C35: a lookup that is given a node sends its request to that node,
\* whatever the other nodes are: the call itself raises nothing.
C35_ExplicitNodeAlone ==
    [][/\ (req.pc = "idle" /\ req'.pc = "idle" /\ result'.op \in LookupOps) =>
              result'.node = None
       /\ (req.pc = "idle" /\ req'.pc = "http" /\ req'.op \in LookupOps
              /\ req'.explicit) =>
              req'.node \in Registered]_vars

\* C37: Node.get_tracks answers every response with a value or with
\* Unauthorized: with first=True a 200 response with tracks gives the first
\* track, and one without tracks raises nothing.
C37_FirstTrack ==
    [][(req.pc = "http" /\ req.op = "get_tracks" /\ result'.op = "get_tracks"
          /\ result'.status # 0) =>
           /\ result'.ret \in {"json", "track", "[]", "None", "Unauthorized"}
           /\ result'.ret = "Unauthorized" <=> result'.status \in {401, 403}
           /\ (req.first /\ result'.status = 200) => result'.ret \in {"track", "[]", "None"}]_vars

\* C34: while the PlayerConnected event of a new Player is with the hooks,
\* the Player is the registry's entry of its guild.
C34_RegisteredWhenAnnounced ==
    \A t \in Tasks :
        task[t].pc = "c_dispatch" =>
            /\ PlayerConnected(task[t].player) \in events
            /\ players[task[t].guild] = task[t].player

\* C31: the removal of a node closes its session, and from then on the node
\* makes no connect attempt, is never connected, is never registered again
\* and is not among the available nodes.
C31_RemovalCancels ==
    [][\A n \in NodeIds :
           /\ (n \notin removed /\ n \in removed') =>
                  /\ session'[n] = "Closed"
                  /\ ~connected'[n]
                  /\ n \notin Registered'
           /\ n \in removed =>
                  /\ n \in removed'
                  /\ session'[n] = session[n]
                  /\ attempts'[n] = attempts[n]
                  /\ failures'[n] = failures[n]
                  /\ ~connected'[n]
                  /\ n \notin Registered'
                  /\ n \notin SeqRange(available_nodes')]_vars

\* a node was removed in the middle of its reconnect loop, after a failed
\* attempt, and a node registered later is connected
C31_Witness ==
    \E n \in removed, m \in Registered :
        /\ attempts[n] > 0
        /\ session[n] = "Closed"
        /\ m > n
        /\ connected[m]

\* C36: destroy of a registered Player that has no node returns None, takes
\* the Player out of the registry and sends nothing.
C36_DestroyWithoutNode ==
    [][\A g \in Guilds :
           (/\ players[g] # None
            /\ pobj[players[g]].node = None
            /\ result'.op = "destroy" /\ result'.guild = g) =>
               /\ result'.ret = "None"
               /\ players'[g] = None
               /\ sent' = sent]_vars

\* C40: from_query of a string that starts with ytmsearch:, spsearch:,
\* scsearch: or amsearch: is a search query of that prefix's source, and its
\* query_string is the string itself; from_query of a Query is that Query.
C40_SearchRoundTrip ==
    [][result'.op = "from_query" =>
           /\ result'.arg.cls = "Query" => result'.ret = result'.arg.val
           /\ (/\ result'.arg.cls = "str"
               /\ result'.arg.val[1] \in SearchPrefixes \ {"ytsearch:"}) =>
                  /\ result'.ret.search
                  /\ result'.ret.source = SearchSource(result'.arg.val[1])
                  /\ query_string(result'.ret) = result'.arg.val]_vars

\* C32: add_query of a cacheable query ignores a result whose loadType is
\* NO_MATCHES, LOAD_FAILED or missing (table unchanged, no error); with another
\* loadType and no tracks it fails with EntryNotFoundError and leaves the table
\* unchanged; otherwise it stores one row for the query's identifier, stamped
\* with the current time, and leaves the rows of other identifiers alone.
C32_AddQuery ==
    [][(result'.op = "add_query" /\ Cacheable(result'.arg)) =>
           IF result'.res.loadType \in {"NO_MATCHES", "LOAD_FAILED", "None"}
           THEN result'.ret = "None" /\ table' = table
           ELSE IF result'.res.tracks # "some"
           THEN result'.ret = "EntryNotFoundError" /\ table' = table
           ELSE /\ result'.ret = "None"
                /\ \E e \in table' :
                       /\ e.last_updated = now
                       /\ {f \in table' : f.identifier = e.identifier} = {e}
                       /\ {f \in table' : f.identifier # e.identifier}
                              = {f \in table : f.identifier # e.identifier}]_vars

====
